---- MODULE Spec2Model ----
(***************************************************************************)
(* Model of the sensor aggregation engine of cockpit-sensors: the          *)
(* useSensors hook (hooks/useSensors.ts) with its provider sessions, and   *)
(* the pure helpers it is built from.                                      *)
(*                                                                         *)
(* Strings of the program that carry no structure the code looks at        *)
(* (sample ids, labels, chip ids) are modelled as naturals; the numeric    *)
(* collation of Intl.Collator on them is then the order of the naturals.   *)
(* The pass-through fields of a sample (min, max, critical, chipName,      *)
(* chipLabel) are left out: no branch of the engine reads them.            *)
(***************************************************************************)
EXTENDS Integers, Sequences, FiniteSets, TLC

(***************************************************************************)
(* Bounds of the model.                                                    *)
(***************************************************************************)
\* sample ids are 1..MaxId
MaxId == 1
\* sample values are 1..MaxValue
MaxValue == 2
\* a snapshot delivered by a provider holds at most MaxLen samples
MaxLen == 1
\* effect runs (provider sessions) of one mounted hook: the mount and the restarts
MaxSessions == 2

(***************************************************************************)
(* Providers (useSensors.ts, lines 38-40).                                 *)
(***************************************************************************)
PRIMARY_PROVIDERS == <<"hwmon", "lm-sensors">>
AUXILIARY_PROVIDERS == <<"powercap", "nvme">>
AGGREGATION_ORDER == PRIMARY_PROVIDERS \o AUXILIARY_PROVIDERS

Range(f) == {f[i] : i \in DOMAIN f}
Providers == Range(AGGREGATION_ORDER)
PrimaryNames == Range(PRIMARY_PROVIDERS)
AuxiliaryNames == Range(AUXILIARY_PROVIDERS)

\* an optional name that is absent (undefined)
Undefined == "undefined"
\* an optional field of another type: absent, or holding the value v
None == <<>>
Some(v) == <<v>>

(***************************************************************************)
(* lib/providers/types.ts                                                  *)
(***************************************************************************)
SensorKind == {"temp", "fan", "volt", "other"}
ProviderErrorCode == {"permission-denied", "unavailable", "unexpected"}

SENSOR_KIND_TO_CATEGORY(kind) ==
    CASE kind = "temp" -> "temperature"
      [] kind = "fan" -> "fan"
      [] kind = "volt" -> "voltage"
      [] OTHER -> "unknown"

SENSOR_KIND_TO_UNIT(kind) ==
    CASE kind = "temp" -> "C"
      [] kind = "fan" -> "RPM"
      [] kind = "volt" -> "V"
      [] OTHER -> Undefined

\* a SensorSample without the optional fields
Sample(kind, id, value) ==
    [kind |-> kind, id |-> id, label |-> id, value |-> value,
     unit |-> Undefined, chipId |-> None, category |-> Undefined]
\* a ProviderError: its code and its message; the model has one message
\* for each code
ProviderError(provider, code) == [code |-> code, message |-> code]

(***************************************************************************)
(* A Map<string, SensorSample[]>: the entries in insertion order.          *)
(***************************************************************************)
EmptyMap == <<>>

MapHas(m, k) == \E i \in DOMAIN m : m[i].key = k

\* samplesByProvider.get(k) ?? []
MapGetOrEmpty(m, k) ==
    IF MapHas(m, k) THEN m[CHOOSE i \in DOMAIN m : m[i].key = k].value ELSE <<>>

\* Map.prototype.set: an existing key keeps its position
MapSet(m, k, v) ==
    IF MapHas(m, k)
    THEN [i \in DOMAIN m |-> IF m[i].key = k THEN [key |-> k, value |-> v] ELSE m[i]]
    ELSE Append(m, [key |-> k, value |-> v])

(***************************************************************************)
(* aggregateSamples (useSensors.ts, lines 42-60).                          *)
(***************************************************************************)
dedupeKey(sample) == <<sample.kind, sample.id>>

\* { ...sample, provider: providerName }
WithProvider(sample, providerName) ==
    [f \in DOMAIN sample \cup {"provider"} |->
        IF f = "provider" THEN providerName ELSE sample[f]]

\* the inner loop over one provider's samples: acc is `aggregated`, whose
\* keys are the set `seen`
RECURSIVE AggregateProvider(_, _, _)
AggregateProvider(samples, providerName, acc) ==
    IF samples = <<>> THEN acc
    ELSE LET sample == Head(samples)
             seen == {dedupeKey(acc[i]) : i \in DOMAIN acc}
         IN  IF dedupeKey(sample) \in seen
             THEN AggregateProvider(Tail(samples), providerName, acc)
             ELSE AggregateProvider(Tail(samples), providerName,
                      Append(acc, WithProvider(sample, providerName)))

\* the outer loop over the provider names `order`, reading the Map m
RECURSIVE AggregateOver(_, _, _)
AggregateOver(order, m, acc) ==
    IF order = <<>> THEN acc
    ELSE AggregateOver(Tail(order), m,
             AggregateProvider(MapGetOrEmpty(m, Head(order)), Head(order), acc))

\* a slip: iterating the Map itself, that is in insertion order
aggregateSamplesInMapOrder(samplesByProvider) ==
    AggregateOver([i \in DOMAIN samplesByProvider |-> samplesByProvider[i].key],
                  samplesByProvider, <<>>)

aggregateSamples(samplesByProvider) ==
    AggregateOver(AGGREGATION_ORDER, samplesByProvider, <<>>)

(***************************************************************************)
(* samplesToSensorData and sortGroups (useSensors.ts, lines 62-114).       *)
(***************************************************************************)
EMPTY_SENSOR_DATA == [groups |-> <<>>]

\* collator.compare(a.label, b.label) <= 0, labels being naturals
CollatorLeq(a, b) == a.label <= b.label

\* Array.prototype.sort is stable: x goes behind every element that does
\* not compare greater
RECURSIVE InsertByLabel(_, _)
InsertByLabel(x, sorted) ==
    IF sorted = <<>> THEN <<x>>
    ELSE IF CollatorLeq(Head(sorted), x)
         THEN <<Head(sorted)>> \o InsertByLabel(x, Tail(sorted))
         ELSE <<x>> \o sorted

RECURSIVE SortByLabel(_, _)
SortByLabel(items, sorted) ==
    IF items = <<>> THEN sorted
    ELSE SortByLabel(Tail(items), InsertByLabel(Head(items), sorted))

sortGroups(groups) ==
    LET byLabel == SortByLabel(groups, <<>>)
    IN  [i \in DOMAIN byLabel |->
            [byLabel[i] EXCEPT !.readings = SortByLabel(@, <<>>)]]

\* the loop of samplesToSensorData: `groups` is the Map of groups by
\* groupKey, in insertion order
RECURSIVE GroupSamples(_, _)
GroupSamples(samples, groups) ==
    IF samples = <<>> THEN groups
    ELSE LET sample == Head(samples)
             category == IF sample.category # Undefined THEN sample.category
                         ELSE SENSOR_KIND_TO_CATEGORY(sample.kind)
             chipId == IF sample.chipId # None THEN sample.chipId[1] ELSE sample.id
             groupKey == <<chipId, category>>
             unit == IF sample.unit # Undefined THEN sample.unit
                     ELSE SENSOR_KIND_TO_UNIT(sample.kind)
             reading == [label |-> sample.label, input |-> sample.value, unit |-> unit]
         IN  IF \E i \in DOMAIN groups : groups[i].id = groupKey
             THEN GroupSamples(Tail(samples),
                      [i \in DOMAIN groups |->
                          IF groups[i].id = groupKey
                          THEN [groups[i] EXCEPT !.readings = Append(@, reading)]
                          ELSE groups[i]])
             ELSE GroupSamples(Tail(samples),
                      Append(groups, [id |-> groupKey,
                                      name |-> chipId,
                                      label |-> chipId,
                                      category |-> category,
                                      readings |-> <<reading>>,
                                      source |-> sample.provider]))

\* a slip: the groups are keyed by the chip alone
RECURSIVE GroupSamplesByChip(_, _)
GroupSamplesByChip(samples, groups) ==
    IF samples = <<>> THEN groups
    ELSE LET sample == Head(samples)
             category == IF sample.category # Undefined THEN sample.category
                         ELSE SENSOR_KIND_TO_CATEGORY(sample.kind)
             chipId == IF sample.chipId # None THEN sample.chipId[1] ELSE sample.id
             groupKey == <<chipId>>
             unit == IF sample.unit # Undefined THEN sample.unit
                     ELSE SENSOR_KIND_TO_UNIT(sample.kind)
             reading == [label |-> sample.label, input |-> sample.value, unit |-> unit]
         IN  IF \E i \in DOMAIN groups : groups[i].id = groupKey
             THEN GroupSamplesByChip(Tail(samples),
                      [i \in DOMAIN groups |->
                          IF groups[i].id = groupKey
                          THEN [groups[i] EXCEPT !.readings = Append(@, reading)]
                          ELSE groups[i]])
             ELSE GroupSamplesByChip(Tail(samples),
                      Append(groups, [id |-> groupKey,
                                      name |-> chipId,
                                      label |-> chipId,
                                      category |-> category,
                                      readings |-> <<reading>>,
                                      source |-> sample.provider]))

samplesToSensorDataByChip(samples) ==
    IF Len(samples) = 0 THEN EMPTY_SENSOR_DATA
    ELSE [groups |-> sortGroups(GroupSamplesByChip(samples, <<>>))]

samplesToSensorData(samples) ==
    IF Len(samples) = 0 THEN EMPTY_SENSOR_DATA
    ELSE [groups |-> sortGroups(GroupSamples(samples, <<>>))]

(***************************************************************************)
(* The hook's state (useSensors.ts, lines 122-136).                        *)
(*                                                                         *)
(* state, availableProviders, retryToken: the React state of the hook.     *)
(* refreshIntervalMs: the hook's argument.  mounted: the component has not *)
(* been unmounted.  sessions: the closures of the effect's runs, oldest    *)
(* first; the last one is the current run.                                 *)
(* samplesMap, aggregated: a sample mapping and its aggregate, for the     *)
(* specification of aggregateSamples alone.                                *)
(* subscription: one subscription of a provider (the closure of its        *)
(* start()), for the specification of the providers alone; probe: the      *)
(* last availability probe of a provider, there, with the completion of    *)
(* its command (io) and the code its command helper classified it as.      *)
(* historyRef: the rolling buffers of the table, as the series handed to   *)
(* the CSV export, with the limit of the buffers and the clock (Date.now); *)
(* pushed: the values pushed into each buffer so far, oldest first; csv:   *)
(* the text the last step returned, if it was an export.  invocation: a    *)
(* call of one of the pure helpers, or a run of the table's history effect: *)
(* its name, its argument and, once it has returned, its result.  rapl: a RAPL domain of powercap, the clock,   *)
(* and the last call of readWatts on it: the outcome of its reads, the     *)
(* domain as the call found it, and what it returned.  instance: one of    *)
(* the provider objects the engine shares (hwmonProvider, nvmeProvider,    *)
(* ...): the timer handle the object keeps, the timers of the window that  *)
(* its start() calls have scheduled, and the closures of those calls.      *)
(***************************************************************************)
VARIABLES state, availableProviders, retryToken, refreshIntervalMs, mounted,
          sessions, samplesMap, aggregated, subscription, probe,
          historyRef, pushed, csv, invocation, rapl, instance

hookVars == <<state, availableProviders, retryToken, refreshIntervalMs, mounted, sessions>>
aggVars == <<samplesMap, aggregated>>
provVars == <<subscription, probe>>
utilVars == <<historyRef, pushed, csv, invocation, rapl, instance>>
vars == <<state, availableProviders, retryToken, refreshIntervalMs, mounted,
          sessions, samplesMap, aggregated, subscription, probe,
          historyRef, pushed, csv, invocation, rapl, instance>>

DEFAULT_REFRESH_MS == 5000
REFRESH_CHOICES == {2000, 5000, 10000}

\* the samples and the snapshots (sample arrays) providers deliver
Samples == {Sample("temp", id, value) : id \in 1..MaxId, value \in 1..MaxValue}

RECURSIVE SeqsUpTo(_, _)
SeqsUpTo(S, n) ==
    IF n = 0 THEN {<<>>}
    ELSE LET shorter == SeqsUpTo(S, n - 1)
         IN  shorter \cup {Append(q, x) : q \in shorter, x \in S}

Snapshots == SeqsUpTo(Samples, MaxLen)

\* the closure of one run of the effect (lines 131-136), and where its two
\* async functions stand: probes[p] is "pending" while isAvailable() of p is
\* awaited, and afterwards how it completed
NewSession ==
    [cancelled |-> FALSE,
     activeProvider |-> Undefined,
     primaryUnsubscribe |-> Undefined,
     auxiliaryUnsubscribes |-> <<>>,
     samplesByProvider |-> EmptyMap,
     permissionDenied |-> FALSE,
     probes |-> [p \in Providers |->
                    IF p \in {PRIMARY_PROVIDERS[1], AUXILIARY_PROVIDERS[1]}
                    THEN "pending" ELSE "none"],
     started |-> {},
     torn |-> {}]

\* a slip: the hook starts with the loading flag down
InitialStateIdle ==
    [data |-> EMPTY_SENSOR_DATA,
     isLoading |-> FALSE,
     status |-> "loading",
     activeProvider |-> Undefined,
     lastError |-> None]

InitialState ==
    [data |-> EMPTY_SENSOR_DATA,
     isLoading |-> TRUE,
     status |-> "loading",
     activeProvider |-> Undefined,
     lastError |-> None]

(***************************************************************************)
(* updateState (lines 138-171): the state the updater returns for prev.    *)
(***************************************************************************)
\* the updater handed to setState (lines 144-170); `activeProvider` and
\* `permissionDeniedRef` are the closure's
\* a slip: only `needs-privileges` is left alone
IsStickyIfPrivileges(prev) == prev.status = "needs-privileges"

\* the statuses the updater leaves alone (line 145)
IsSticky(prev) == prev.status = "needs-privileges" \/ prev.status = "error"

StateUpdater(sess, prev) ==
    LET agg == aggregateSamples(sess.samplesByProvider)
    IN  IF IsSticky(prev) THEN prev
        ELSE IF Len(agg) = 0
        THEN [data |-> EMPTY_SENSOR_DATA,
              isLoading |-> FALSE,
              status |-> IF sess.activeProvider # Undefined THEN "no-data" ELSE "no-sources",
              activeProvider |-> IF sess.activeProvider # Undefined
                                 THEN sess.activeProvider ELSE prev.activeProvider,
              lastError |-> prev.lastError]
        ELSE LET providerName == IF sess.activeProvider # Undefined
                                 THEN sess.activeProvider ELSE agg[1].provider
                 hasPermissionError == sess.permissionDenied
                                       \/ prev.status = "needs-privileges"
             IN  [data |-> samplesToSensorData(agg),
                  isLoading |-> FALSE,
                  status |-> IF hasPermissionError THEN "needs-privileges" ELSE "ready",
                  activeProvider |-> providerName,
                  lastError |-> IF hasPermissionError THEN prev.lastError ELSE None]

\* a slip: no check of `cancelled`
updateStateUnguarded(sess, prev) == StateUpdater(sess, prev)

updateState(sess, prev) ==
    IF sess.cancelled THEN prev ELSE StateUpdater(sess, prev)

(***************************************************************************)
(* handleProviderError (lines 173-207): the closure and the state after    *)
(* the call.                                                               *)
(***************************************************************************)
\* a slip: only `ready` is kept
KeepsStatusIfReady(prev) == prev.status = "ready"

\* a slip: only `needs-privileges` is kept
KeepsStatusIfPrivileges(prev) == prev.status = "needs-privileges"

\* the statuses an error other than permission-denied leaves alone (line 195)
KeepsStatus(prev) == prev.status = "ready" \/ prev.status = "needs-privileges"

\* a slip: permission-denied is handled like every other code
IsPermissionErrorNever(error) == FALSE

\* the error asks for privileges (line 178)
IsPermissionError(error) == error.code = "permission-denied"

handleProviderError(sess, prev, provider, error) ==
    IF sess.cancelled THEN [sess |-> sess, state |-> prev]
    ELSE IF IsPermissionError(error)
    THEN LET agg == aggregateSamples(sess.samplesByProvider)
             providerName == IF sess.activeProvider # Undefined THEN sess.activeProvider
                             ELSE IF Len(agg) > 0 THEN agg[1].provider
                             ELSE provider
         IN  [sess |-> [sess EXCEPT !.permissionDenied = TRUE],
              state |-> [data |-> IF Len(agg) > 0 THEN samplesToSensorData(agg)
                                  ELSE prev.data,
                         isLoading |-> FALSE,
                         status |-> "needs-privileges",
                         activeProvider |-> IF prev.activeProvider # Undefined
                                            THEN prev.activeProvider ELSE providerName,
                         lastError |-> Some(error.message)]]
    ELSE [sess |-> sess,
          state |-> IF KeepsStatus(prev)
                    THEN prev
                    ELSE [data |-> prev.data,
                          isLoading |-> FALSE,
                          status |-> "error",
                          activeProvider |-> provider,
                          lastError |-> Some(error.message)]]

(***************************************************************************)
(* What a provider may do (lib/providers/types.ts, Provider).              *)
(***************************************************************************)
\* how isAvailable() completes: it resolves true or false, or rejects with
\* a ProviderError of some code or with another error
ProbeOutcomes == {"true", "false", "other-error"} \cup ProviderErrorCode

\* what the model remembers of a completed probe: "no" stands for resolved
\* false and for every rejection other than permission-denied
ProbeRecord(outcome) ==
    CASE outcome = "true" -> "true"
      [] outcome = "permission-denied" -> "denied"
      [] OTHER -> "no"

\* what start() does before it returns: nothing, one call of onChange or
\* of onError; or it throws a ProviderError or another error
StartOutcomes ==
    {[kind |-> "return", samples |-> <<>>, code |-> Undefined]}
    \cup {[kind |-> "change", samples |-> x, code |-> Undefined] : x \in Snapshots}
    \cup {[kind |-> "error", samples |-> <<>>, code |-> c] : c \in ProviderErrorCode}
    \cup {[kind |-> "throw", samples |-> <<>>, code |-> c] : c \in ProviderErrorCode}
    \cup {[kind |-> "throw-other", samples |-> <<>>, code |-> Undefined]}

\* setAvailableProviders(prev => Array.from(new Set([...prev, name])))
AddAvailable(prev, name) ==
    IF name \in Range(prev) THEN prev ELSE Append(prev, name)

\* the subscriptions of a session: the providers whose start() returned
Subscribed(sess) ==
    ({sess.primaryUnsubscribe} \ {Undefined}) \cup Range(sess.auxiliaryUnsubscribes)

\* the onChange callback handed to start() (lines 219-222 and 279-282)
onChange(sess, prev, provider, samples) ==
    LET sess2 == [sess EXCEPT !.samplesByProvider = MapSet(@, provider, samples)]
    IN  [sess |-> sess2, state |-> updateState(sess2, prev)]

\* the synchronous part of provider.start(...): the callback it makes, or
\* the ProviderError it throws and the catch block hands on
DuringStart(sess, prev, provider, b) ==
    CASE b.kind = "change" -> onChange(sess, prev, provider, b.samples)
      [] b.kind \in {"error", "throw"} ->
            handleProviderError(sess, prev, provider, ProviderError(provider, b.code))
      [] OTHER -> [sess |-> sess, state |-> prev]

Returned(b) == b.kind \in {"return", "change", "error"}

(***************************************************************************)
(* startPrimaryProvider (lines 246-294): the step after the probe of       *)
(* PRIMARY_PROVIDERS[index] completed with `outcome`.                      *)
(***************************************************************************)
\* a slip: every rejection falls through to the next candidate
PrimaryProbeNeverDenied(outcome) == FALSE

\* the rejection that ends the search for a primary provider (line 260)
PrimaryProbeDenied(outcome) == outcome = "permission-denied"

\* a slip: the value isAvailable() resolved to is not looked at
PrimaryResolved(outcome) == outcome \in {"true", "false"}

\* isAvailable() resolved true (lines 254-255)
PrimaryAvailable(outcome) == outcome = "true"

startPrimaryProvider(sess, prev, avail, index, outcome, b) ==
    LET provider == PRIMARY_PROVIDERS[index]
        probed == [sess EXCEPT !.probes[provider] = ProbeRecord(outcome)]
    IN  IF PrimaryProbeDenied(outcome)
        THEN LET r == handleProviderError(probed, prev, provider,
                                          ProviderError(provider, outcome))
             IN  [sess |-> r.sess, state |-> r.state, avail |-> avail]
        ELSE IF ~PrimaryAvailable(outcome)
        THEN IF index + 1 > Len(PRIMARY_PROVIDERS)
             THEN [sess |-> probed, state |-> updateState(probed, prev), avail |-> avail]
             ELSE [sess |-> [probed EXCEPT !.probes[PRIMARY_PROVIDERS[index + 1]] = "pending"],
                   state |-> prev, avail |-> avail]
        ELSE IF probed.cancelled
        THEN [sess |-> probed, state |-> prev, avail |-> avail]
        ELSE LET committed == [probed EXCEPT
                                  !.activeProvider = provider,
                                  !.samplesByProvider = MapSet(@, provider, <<>>),
                                  !.started = @ \cup {provider}]
                 r == DuringStart(committed, prev, provider, b)
             IN  [sess |-> IF Returned(b)
                           THEN [r.sess EXCEPT !.primaryUnsubscribe = provider]
                           ELSE r.sess,
                  state |-> r.state,
                  avail |-> AddAvailable(avail, provider)]

(***************************************************************************)
(* startAuxiliaryProviders (lines 209-244): one iteration of the loop,     *)
(* from the completion of the probe of AUXILIARY_PROVIDERS[index] to the   *)
(* next await.                                                             *)
(***************************************************************************)
\* a slip: auxiliary providers wait for a primary provider
AuxiliaryAvailableWithPrimary(sess, outcome) ==
    outcome = "true" /\ sess.activeProvider # Undefined

\* isAvailable() resolved true (lines 212-215); nothing of the closure
\* is looked at
AuxiliaryAvailable(sess, outcome) == outcome = "true"

startAuxiliaryProviders(sess, prev, avail, index, outcome, b) ==
    LET provider == AUXILIARY_PROVIDERS[index]
        probed == [sess EXCEPT !.probes[provider] = ProbeRecord(outcome)]
        body ==
            IF outcome = "permission-denied"
            THEN LET r == handleProviderError(probed, prev, provider,
                                              ProviderError(provider, outcome))
                 IN  [sess |-> r.sess, state |-> r.state, avail |-> avail]
            ELSE IF ~AuxiliaryAvailable(probed, outcome)
            THEN [sess |-> probed, state |-> prev, avail |-> avail]
            ELSE LET calling == [probed EXCEPT !.started = @ \cup {provider}]
                     r == DuringStart(calling, prev, provider, b)
                 IN  IF Returned(b)
                     THEN [sess |-> [r.sess EXCEPT
                                       !.auxiliaryUnsubscribes = Append(@, provider),
                                       !.samplesByProvider = MapSet(@, provider, <<>>)],
                           state |-> r.state,
                           avail |-> AddAvailable(avail, provider)]
                     ELSE [sess |-> r.sess, state |-> r.state, avail |-> avail]
    IN  [body EXCEPT !.sess =
            IF index + 1 > Len(AUXILIARY_PROVIDERS) THEN @
            ELSE [@ EXCEPT !.probes[AUXILIARY_PROVIDERS[index + 1]] = "pending"]]

(***************************************************************************)
(* The effect's cleanup (lines 299-303).                                   *)
(***************************************************************************)
cleanup(sess) ==
    [sess EXCEPT !.cancelled = TRUE,
                 !.torn = @ \cup Subscribed(sess)]

(***************************************************************************)
(* What the model keeps of a closure.  Once `cancelled` is set, no code    *)
(* reads the closure's activeProvider, samplesByProvider or                *)
(* permissionDeniedRef again (their only readers, updateState and          *)
(* handleProviderError, return at lines 139 and 174), so the model does    *)
(* not carry their values on; it keeps the probes and the subscriptions.   *)
(***************************************************************************)
Kept(sess) ==
    IF sess.cancelled
    THEN [sess EXCEPT !.activeProvider = Undefined,
                      !.samplesByProvider = EmptyMap,
                      !.permissionDenied = FALSE]
    ELSE sess

\* no availability probe has completed
NotProbed == [provider |-> Undefined, io |-> Undefined, code |-> Undefined,
              outcome |-> Undefined]

\* a provider before start() is called: no closure of start() exists
NotStarted ==
    [provider |-> Undefined, disposed |-> FALSE, tasks |-> <<>>, polls |-> <<>>,
     timer |-> FALSE, interval |-> None, watching |-> FALSE, event |-> "none",
     delivered |-> None, teardowns |-> 0]

\* lib/history.ts, line 33
MAX_HISTORY_SAMPLES == 300

\* the rows of the table that have a history buffer, and their labels
SeriesKeys == {"cpu", "fan"}
SeriesLabel(key) == IF key = "cpu" THEN <<"C", "P", "U">> ELSE <<"F", ",", "\"">>

\* a HistorySeries with an empty buffer (csv.ts, lines 47-51)
HistorySeries(key) == [key |-> key, label |-> SeriesLabel(key), samples |-> <<>>]

\* a file read by readNumberFile: it throws permission-denied, or gives a
\* number or undefined (None)
FileRead(denied, value) == [denied |-> denied, value |-> value]

\* a RaplDomainState (powercap.ts, lines 16-26) without its names: the paths
\* are there or not; a power in watts is the quotient num / den
RaplDomainState(powerPath, energyPath, maxEnergy, lastEnergy, lastTimestamp, cachedPower) ==
    [powerPath |-> powerPath, energyPath |-> energyPath, maxEnergy |-> maxEnergy,
     lastEnergy |-> lastEnergy, lastTimestamp |-> lastTimestamp, cachedPower |-> cachedPower]

\* no domain listed, readWatts not called
NoDomain ==
    [domain |-> RaplDomainState(FALSE, FALSE, None, None, None, None),
     now |-> 0,
     called |-> FALSE,
     power |-> FileRead(FALSE, None),
     energy |-> FileRead(FALSE, None),
     before |-> RaplDomainState(FALSE, FALSE, None, None, None, None),
     threw |-> FALSE,
     watts |-> None]

\* a provider object none of whose methods has been called
NoInstance ==
    [provider |-> Undefined, handle |-> None, timers |-> {}, created |-> 0,
     subs |-> <<>>, now |-> 0, events |-> <<>>, emitted |-> <<>>]

\* no helper called
NoCall == [fn |-> "none", input |-> None, result |-> None]

NoHistory == [limit |-> MAX_HISTORY_SAMPLES, now |-> 0, series |-> <<>>]
NothingPushed == [key \in SeriesKeys |-> <<>>]

(***************************************************************************)
(* Initial state: the hook rendered once and its effect run (lines         *)
(* 122-136, 296-297).                                                      *)
(***************************************************************************)
Init ==
    /\ state = InitialState
    /\ availableProviders = <<>>
    /\ retryToken = 0
    /\ refreshIntervalMs = DEFAULT_REFRESH_MS
    /\ mounted = TRUE
    /\ sessions = <<NewSession>>
    /\ samplesMap = EmptyMap
    /\ aggregated = <<>>
    /\ subscription = NotStarted
    /\ probe = NotProbed
    /\ historyRef = NoHistory
    /\ pushed = NothingPushed
    /\ csv = None
    /\ invocation = NoCall
    /\ rapl = NoDomain
    /\ instance = NoInstance

(***************************************************************************)
(* Actions of the hook.                                                    *)
(***************************************************************************)
\* isAvailable() of a primary provider completes in session s
PrimaryProbeSettles(s, index, outcome, b) ==
    /\ sessions[s].probes[PRIMARY_PROVIDERS[index]] = "pending"
    /\ LET r == startPrimaryProvider(sessions[s], state, availableProviders,
                                     index, outcome, b)
       IN  /\ sessions' = [sessions EXCEPT ![s] = Kept(r.sess)]
           /\ state' = r.state
           /\ availableProviders' = r.avail
    /\ UNCHANGED <<retryToken, refreshIntervalMs, mounted, aggVars, provVars, utilVars>>

\* isAvailable() of an auxiliary provider completes in session s
AuxiliaryProbeSettles(s, index, outcome, b) ==
    /\ sessions[s].probes[AUXILIARY_PROVIDERS[index]] = "pending"
    /\ LET r == startAuxiliaryProviders(sessions[s], state, availableProviders,
                                        index, outcome, b)
       IN  /\ sessions' = [sessions EXCEPT ![s] = Kept(r.sess)]
           /\ state' = r.state
           /\ availableProviders' = IF mounted THEN r.avail ELSE availableProviders
    /\ UNCHANGED <<retryToken, refreshIntervalMs, mounted, aggVars, provVars, utilVars>>

\* a started provider delivers a snapshot
ProviderChange(s, provider, samples) ==
    /\ provider \in Subscribed(sessions[s])
    /\ LET r == onChange(sessions[s], state, provider, samples)
       IN  /\ sessions' = [sessions EXCEPT ![s] = Kept(r.sess)]
           /\ state' = r.state
    /\ UNCHANGED <<availableProviders, retryToken, refreshIntervalMs, mounted, aggVars, provVars, utilVars>>

\* a started provider reports an error through context.onError
ProviderErrors(s, provider, code) ==
    /\ provider \in Subscribed(sessions[s])
    /\ LET r == handleProviderError(sessions[s], state, provider,
                                    ProviderError(provider, code))
       IN  /\ sessions' = [sessions EXCEPT ![s] = Kept(r.sess)]
           /\ state' = r.state
    /\ UNCHANGED <<availableProviders, retryToken, refreshIntervalMs, mounted, aggVars, provVars, utilVars>>

\* a slip: the closure is patched in place, its cache and its permission
\* flag carried over
RestartedSessionsPatched ==
    Append([sessions EXCEPT ![Len(sessions)] = Kept(cleanup(@))],
           [NewSession EXCEPT
               !.samplesByProvider = sessions[Len(sessions)].samplesByProvider,
               !.permissionDenied = sessions[Len(sessions)].permissionDenied])

\* the effect runs again: cleanup of the current closure, then a new one
RestartedSessions ==
    Append([sessions EXCEPT ![Len(sessions)] = Kept(cleanup(@))], NewSession)

\* retry() (lines 306-315) and the re-run of the effect its token causes
retry ==
    /\ mounted
    /\ Len(sessions) < MaxSessions
    /\ state' = [data |-> EMPTY_SENSOR_DATA,
                 isLoading |-> TRUE,
                 status |-> "loading",
                 activeProvider |-> Undefined,
                 lastError |-> None]
    /\ availableProviders' = <<>>
    /\ retryToken' = retryToken + 1
    /\ sessions' = RestartedSessions
    /\ UNCHANGED <<refreshIntervalMs, mounted, aggVars, provVars, utilVars>>

\* a slip: the new interval resets the state as retry() does
ChangeRefreshIntervalResetting(ms) ==
    /\ mounted
    /\ Len(sessions) < MaxSessions
    /\ ms # refreshIntervalMs
    /\ refreshIntervalMs' = ms
    /\ state' = InitialState
    /\ sessions' = RestartedSessions
    /\ UNCHANGED <<availableProviders, retryToken, mounted, aggVars, provVars, utilVars>>

\* the hook is rendered with another refresh interval (dependency of the
\* effect, line 304)
ChangeRefreshInterval(ms) ==
    /\ mounted
    /\ Len(sessions) < MaxSessions
    /\ ms # refreshIntervalMs
    /\ refreshIntervalMs' = ms
    /\ sessions' = RestartedSessions
    /\ UNCHANGED <<state, availableProviders, retryToken, mounted, aggVars, provVars, utilVars>>

\* the component is unmounted
Unmount ==
    /\ mounted
    /\ mounted' = FALSE
    /\ sessions' = [sessions EXCEPT ![Len(sessions)] = Kept(cleanup(@))]
    /\ UNCHANGED <<state, availableProviders, retryToken, refreshIntervalMs, aggVars, provVars, utilVars>>

\* Spec: one run of the effect, from the mount to the unmount, with
\* providers that may do anything the Provider interface allows
Next ==
    \/ \E s \in DOMAIN sessions, i \in DOMAIN PRIMARY_PROVIDERS,
          o \in ProbeOutcomes, b \in StartOutcomes :
          PrimaryProbeSettles(s, i, o, b)
    \/ \E s \in DOMAIN sessions, i \in DOMAIN AUXILIARY_PROVIDERS,
          o \in ProbeOutcomes, b \in StartOutcomes :
          AuxiliaryProbeSettles(s, i, o, b)
    \/ \E s \in DOMAIN sessions, p \in Providers, x \in Snapshots :
          ProviderChange(s, p, x)
    \/ \E s \in DOMAIN sessions, p \in Providers, c \in ProviderErrorCode :
          ProviderErrors(s, p, c)
    \/ Unmount

Spec == Init /\ [][Next]_vars

(***************************************************************************)
(* SpecLifecycle: the effect re-run by retry() and by a change of the      *)
(* refresh interval, on a host where hwmon and powercap are the providers  *)
(* that can be present, and whose start() returns before it calls back.    *)
(***************************************************************************)
HostProbeOutcomes(provider) ==
    IF provider \in {"hwmon", "powercap"}
    THEN {"true", "false", "permission-denied"}
    ELSE {"false"}

ReturnsAtOnce == [kind |-> "return", samples |-> <<>>, code |-> Undefined]

NextLifecycle ==
    \/ \E s \in DOMAIN sessions, i \in DOMAIN PRIMARY_PROVIDERS :
          \E o \in HostProbeOutcomes(PRIMARY_PROVIDERS[i]) :
             PrimaryProbeSettles(s, i, o, ReturnsAtOnce)
    \/ \E s \in DOMAIN sessions, i \in DOMAIN AUXILIARY_PROVIDERS :
          \E o \in HostProbeOutcomes(AUXILIARY_PROVIDERS[i]) :
             AuxiliaryProbeSettles(s, i, o, ReturnsAtOnce)
    \/ \E s \in DOMAIN sessions, p \in Providers, x \in Snapshots :
          ProviderChange(s, p, x)
    \/ \E s \in DOMAIN sessions, p \in Providers,
          c \in {"permission-denied", "unexpected"} :
          ProviderErrors(s, p, c)
    \/ retry
    \/ \E ms \in REFRESH_CHOICES : ChangeRefreshInterval(ms)
    \/ Unmount

SpecLifecycle == Init /\ [][NextLifecycle]_vars


(***************************************************************************)
(* SpecAggregate: aggregateSamples alone, on every sample mapping that     *)
(* calls of Map.set can build, in every order of insertion.                *)
(***************************************************************************)
AggregateSamples == {Sample(kind, 1, value) : kind \in {"temp", "fan"}, value \in 1..MaxValue}
AggregateSnapshots == SeqsUpTo(AggregateSamples, MaxLen)

\* samplesByProvider.set(provider.name, samples) and the aggregation that
\* follows it in updateState (lines 220-221, 143)
StoreSnapshot(provider, samples) ==
    /\ samplesMap' = MapSet(samplesMap, provider, samples)
    /\ aggregated' = aggregateSamples(samplesMap')
    /\ UNCHANGED <<hookVars, provVars, utilVars>>

\* new Map() (line 135)
NewSamplesMap ==
    /\ samplesMap # EmptyMap
    /\ samplesMap' = EmptyMap
    /\ aggregated' = aggregateSamples(samplesMap')
    /\ UNCHANGED <<hookVars, provVars, utilVars>>

NextAggregate ==
    \/ \E p \in Providers, x \in AggregateSnapshots : StoreSnapshot(p, x)
    \/ NewSamplesMap

SpecAggregate == Init /\ [][NextAggregate]_vars

(***************************************************************************)
(* The providers (lib/providers/hwmon.ts, lm-sensors.ts, nvme.ts,          *)
(* powercap.ts, and smartctl, whose source is the second part of           *)
(* __tests__/nvme.test.ts): one subscription, from start() on.             *)
(*                                                                         *)
(* subscription.tasks: the async functions of the closure that are at an   *)
(* await, each named by the call it waits for.  polls: for each task, the  *)
(* devices its loop has read and the samples it has collected (nvme,       *)
(* smartctl).  delivered: the number of samples the last step handed to    *)
(* onChange from such a loop.  timer: the interval (or,                    *)
(* for hwmon, the throttle timeout) is set.  watching: a file watcher of   *)
(* hwmon is attached.  interval: the delay the subscription gives to       *)
(* setInterval.  event: the callback the last step invoked,                *)
(* "onChange" or, for onError, the code of the ProviderError it was given. *)
(* teardowns: calls of the function start() returned.                      *)
(***************************************************************************)
\* polls of one subscription that wait for I/O at the same time
MaxInFlight == 2
\* devices one poll of nvme or smartctl reads
MaxDevices == 2

\* the provider implementations: those the engine lists, and smartctl
ProviderNames == Providers \cup {"smartctl"}

\* the providers that list devices and read each one
DeviceProviders == {"nvme", "smartctl"}

\* the first await of the function start() calls, and whether start() sets
\* the interval itself
FirstAwait(provider) ==
    CASE provider = "hwmon" -> "buildChipDescriptors"
      [] provider = "lm-sensors" -> "readSensorsJson"
      [] provider = "nvme" -> "listNvmeDevices"
      [] provider = "smartctl" -> "listSmartctlDevices"
      [] provider = "powercap" -> "listRaplDomains"

\* the read of one device in the loop of a poll (nvme.ts line 143; for
\* smartctl, __tests__/nvme.test.ts line 268)
ReadDevice(provider) == IF provider = "nvme" THEN "readSmartLog" ELSE "readDeviceData"

SetsIntervalInStart(provider) == provider \in {"lm-sensors", "nvme", "smartctl"}

\* how cockpit.spawn or a file read completes: with some items (lines of
\* output, devices, a number), with none, or with a CockpitSpawnError
\* (problem, exit_status, message; the message is modelled by the pattern
\* its text matches)
IoSuccess(items) ==
    [failed |-> FALSE, items |-> items, problem |-> Undefined, exit_status |-> 0,
     message |-> Undefined]
SpawnErrors ==
    [failed : {TRUE}, items : {FALSE},
     problem : {"access-denied", "not-found", Undefined},
     exit_status : {1, 127},
     message : {"permission denied", "command not found",
                "no such file or directory", "failed"}]
IoResults == {IoSuccess(TRUE), IoSuccess(FALSE)} \cup SpawnErrors

\* utils.ts, isPermissionDenied (lines 50-66) and isCommandMissing (90-110)
isPermissionDenied(error) ==
    error.problem = "access-denied" \/ error.message = "permission denied"
isCommandMissing(error) ==
    \/ error.problem = "not-found"
    \/ error.exit_status = 127
    \/ error.message \in {"command not found", "no such file or directory"}

\* what the caller of a helper gets: "some", "empty", or the code of the
\* ProviderError the helper throws
Items(result) == IF result.items THEN "some" ELSE "empty"

\* utils.ts, spawnJson (lines 295-330); readSensorsJson of lm-sensors.ts
\* (lines 87-112) is the same code
spawnJson(result) ==
    IF ~result.failed THEN Items(result)
    ELSE IF isPermissionDenied(result) THEN "permission-denied"
    ELSE IF isCommandMissing(result) THEN "unavailable"
    ELSE "unexpected"

\* utils.ts, spawnText (lines 261-283); spawnText of hwmon.ts (lines 88-102)
\* is the same code
spawnText(result) ==
    IF ~result.failed THEN Items(result)
    ELSE IF isPermissionDenied(result) THEN "permission-denied"
    ELSE "unexpected"

\* utils.ts, readFile (lines 199-220), used by powercap
readFile(result) ==
    IF ~result.failed THEN Items(result)
    ELSE IF isPermissionDenied(result) THEN "permission-denied"
    ELSE "empty"

\* hwmon.ts, readFile (lines 50-59): every failure gives null
hwmonReadFile(result) == IF ~result.failed THEN Items(result) ELSE "empty"

\* a listing by spawnText whose caller turns `unexpected` into an empty
\* listing (hwmon.ts 214-220, powercap.ts 114-120)
ListingOrEmpty(result) ==
    IF spawnText(result) = "unexpected" THEN "empty" ELSE spawnText(result)

\* what the awaited call hands back to the code of start() when its I/O
\* completes with `result`
Awaited(call, result) ==
    CASE call \in {"buildChipDescriptors", "listRaplDomains"} -> ListingOrEmpty(result)
      [] call = "readNumberFile" -> hwmonReadFile(result)
      [] call \in {"readWatts", "bootstrap:readWatts"} -> readFile(result)
      [] OTHER -> spawnJson(result)

RemoveAt(q, i) == [j \in 1..(Len(q) - 1) |-> IF j < i THEN q[j] ELSE q[j + 1]]

\* the task i ends, having invoked onChange or, with the error code `event`,
\* onError ("none": no callback)
Calls(sub, i, event) ==
    [sub EXCEPT !.tasks = RemoveAt(@, i), !.polls = RemoveAt(@, i),
                !.event = event, !.delivered = None]
\* the task i goes on to its next await
Awaits(sub, i, call) == [sub EXCEPT !.tasks[i] = call, !.event = "none", !.delivered = None]

\* a task outside the loop over the devices
NoDevices == [read |-> 0, samples |-> 0]

\* hwmon.ts, attachWatchers (lines 333-397)
attachWatchers(sub, i, result) ==
    IF sub.tasks[i] = "buildChipDescriptors"
    THEN CASE result = "some" -> Awaits(sub, i, "readNumberFile")
           [] result = "empty" -> Calls(sub, i, "onChange")
           [] OTHER -> Calls(sub, i, result)
    ELSE \* the watcher is attached (lines 358-383), then emit() (line 387)
         [Calls(sub, i, "none") EXCEPT !.watching = TRUE,
                                      !.timer = IF sub.disposed THEN @ ELSE TRUE]

\* lm-sensors.ts, poll (lines 220-241)
lmSensorsPoll(sub, i, result) ==
    IF sub.disposed THEN Calls(sub, i, "none")
    ELSE IF result \in {"some", "empty"} THEN Calls(sub, i, "onChange")
    ELSE Calls(sub, i, result)

\* nvme.ts, poll (lines 128-172), and the poll of smartctl
\* (__tests__/nvme.test.ts, lines 253-306), which is the same code; `more`:
\* the loop has another device to read
nvmePoll(sub, i, result, more) ==
    IF sub.tasks[i] = FirstAwait(sub.provider)
    THEN IF sub.disposed THEN Calls(sub, i, "none")
         ELSE CASE result = "some" -> Awaits(sub, i, ReadDevice(sub.provider))
                [] result = "empty" -> [Calls(sub, i, "onChange") EXCEPT !.delivered = Some(0)]
                [] OTHER -> Calls(sub, i, result)
    ELSE \* the read of a device (nvme.ts, lines 142-162): a sample if it
         \* gave a temperature; permission-denied ends the poll, any other
         \* failure is passed over
         IF result = "permission-denied" THEN Calls(sub, i, result)
         ELSE LET samples == sub.polls[i].samples + (IF result = "some" THEN 1 ELSE 0)
              IN  IF more /\ sub.polls[i].read + 1 < MaxDevices
                  THEN [Awaits(sub, i, ReadDevice(sub.provider)) EXCEPT
                           !.polls[i] = [read |-> @.read + 1, samples |-> samples]]
                  ELSE [Calls(sub, i, "onChange") EXCEPT !.delivered = Some(samples)]

\* powercap.ts, collect (lines 186-208): the callback it ends with
collect(result) == IF result = "permission-denied" THEN result ELSE "onChange"

\* powercap.ts, bootstrap (lines 210-237) and the collect() of the interval
bootstrap(sub, i, result) ==
    CASE sub.tasks[i] = "listRaplDomains" ->
            IF result = "permission-denied" THEN Calls(sub, i, result)
            ELSE IF sub.disposed THEN Calls(sub, i, "none")
            ELSE IF result = "empty" THEN Calls(sub, i, "onChange")
            ELSE Awaits(sub, i, "bootstrap:readWatts")
      [] sub.tasks[i] = "bootstrap:readWatts" ->
            [Calls(sub, i, collect(result)) EXCEPT
                !.timer = IF sub.disposed THEN @ ELSE TRUE]
      [] OTHER -> Calls(sub, i, collect(result))

\* isAvailable() of each provider: "true", "false", or the code of the
\* ProviderError it rejects with, when its command completes with `io`
\* a slip: every failure of the probe's command is swallowed
hwmonIsAvailableSwallowing(io) == IF spawnText(io) = "some" THEN "true" ELSE "false"

\* hwmon.ts, lines 275-288
hwmonIsAvailable(io) ==
    LET output == spawnText(io)
    IN  IF output = "permission-denied" THEN output
        ELSE IF output = "some" THEN "true" ELSE "false"

\* lm-sensors.ts, lines 196-214
lmSensorsIsAvailable(io) ==
    LET payload == spawnJson(io)
    IN  IF payload = "permission-denied" THEN payload
        ELSE IF payload = "some" THEN "true" ELSE "false"

\* nvme.ts, lines 105-122
nvmeIsAvailable(io) ==
    LET devices == spawnJson(io)
    IN  IF devices = "permission-denied" THEN devices
        ELSE IF devices = "some" THEN "true" ELSE "false"

\* powercap.ts, lines 160-177: only `unexpected` is caught
powercapIsAvailable(io) ==
    LET output == spawnText(io)
    IN  IF output = "unexpected" THEN "false"
        ELSE IF output \in ProviderErrorCode THEN output
        ELSE IF output = "some" THEN "true" ELSE "false"

isAvailable(provider, io) ==
    CASE provider = "hwmon" -> hwmonIsAvailable(io)
      [] provider = "lm-sensors" -> lmSensorsIsAvailable(io)
      [] provider \in DeviceProviders -> nvmeIsAvailable(io)
      [] OTHER -> powercapIsAvailable(io)

\* the helper a provider runs its commands with: spawnText for hwmon
\* (hwmon.ts, line 277) and powercap (powercap.ts, line 162), spawnJson for
\* nvme (nvme.ts, lines 21-22) and smartctl, its copy readSensorsJson for
\* lm-sensors
RunCommand(provider, io) ==
    IF provider \in {"hwmon", "powercap"} THEN spawnText(io) ELSE spawnJson(io)

\* isAvailable() of a provider completes, its command having completed with
\* `io`; code: the code of the ProviderError the command helper threw
Probe(provider, io) ==
    /\ subscription = NotStarted
    /\ probe' = [provider |-> provider,
                 io |-> io,
                 code |-> IF io.failed THEN RunCommand(provider, io) ELSE Undefined,
                 outcome |-> isAvailable(provider, io)]
    /\ UNCHANGED <<hookVars, aggVars, subscription, utilVars>>

\* utils.ts, POLLING_INTERVALS (lines 15-26), and lm-sensors.ts, line 13
POLLING_INTERVALS_NVME == 10000
POLLING_INTERVALS_POWERCAP == 3000
POLLING_INTERVALS_MINIMUM == 500
POLL_INTERVAL_MS == 5000

\* context.refreshIntervalMs: absent, or a number of milliseconds
RefreshIntervals == {None} \cup {Some(ms) : ms \in {0, 100, 499, 500, 501, 2000}}

\* x ?? fallback
OrElse(x, fallback) == IF x = None THEN fallback ELSE x[1]

Max(a, b) == IF a >= b THEN a ELSE b

\* the delay each provider gives to setInterval: lm-sensors.ts line 304,
\* nvme.ts line 177, powercap.ts line 184; hwmon sets no interval
PollInterval(provider, contextRefreshMs) ==
    CASE provider = "lm-sensors" -> Some(OrElse(contextRefreshMs, POLL_INTERVAL_MS))
      [] provider \in DeviceProviders ->
            Some(OrElse(contextRefreshMs, POLLING_INTERVALS_NVME))
      [] provider = "powercap" ->
            Some(Max(OrElse(contextRefreshMs, POLLING_INTERVALS_POWERCAP),
                     POLLING_INTERVALS_MINIMUM))
      [] OTHER -> None

\* start(onChange, context), which the engine calls once isAvailable() has
\* resolved true (useSensors.ts, lines 212-218 and 254-278)
ProviderStart(provider, contextRefreshMs) ==
    /\ subscription = NotStarted
    /\ probe.provider = provider
    /\ probe.outcome = "true"
    /\ subscription' = [NotStarted EXCEPT
                           !.provider = provider,
                           !.tasks = <<FirstAwait(provider)>>,
                           !.polls = <<NoDevices>>,
                           !.timer = SetsIntervalInStart(provider),
                           !.interval = PollInterval(provider, contextRefreshMs)]
    /\ UNCHANGED <<hookVars, aggVars, probe, utilVars>>

\* the I/O the task i waits for completes with `io`
AwaitCompletes(i, io) ==
    /\ i \in DOMAIN subscription.tasks
    /\ LET result == Awaited(subscription.tasks[i], io)
       IN  \E more \in BOOLEAN :
             subscription' =
               CASE subscription.provider = "hwmon" -> attachWatchers(subscription, i, result)
                 [] subscription.provider = "lm-sensors" ->
                        lmSensorsPoll(subscription, i, result)
                 [] subscription.provider \in DeviceProviders ->
                        nvmePoll(subscription, i, result, more)
                 [] OTHER -> bootstrap(subscription, i, result)
    /\ UNCHANGED <<hookVars, aggVars, probe, utilVars>>

\* the interval fires: another poll (collect, for powercap); for hwmon the
\* throttle timeout fires and delivers the snapshot (lines 307-318)
TimerFires ==
    /\ subscription.timer
    /\ IF subscription.provider = "hwmon"
       THEN subscription' = [subscription EXCEPT !.timer = FALSE, !.event = "onChange",
                                                 !.delivered = None]
       ELSE /\ Len(subscription.tasks) < MaxInFlight
            /\ subscription' =
                  [subscription EXCEPT
                      !.tasks = Append(@, IF subscription.provider = "powercap"
                                          THEN "readWatts"
                                          ELSE FirstAwait(subscription.provider)),
                      !.polls = Append(@, NoDevices),
                      !.event = "none",
                      !.delivered = None]
    /\ UNCHANGED <<hookVars, aggVars, probe, utilVars>>

\* a watched file of hwmon changes (the callback of handle.watch, lines
\* 359-378)
WatchEvent ==
    /\ subscription.watching
    /\ subscription' = [subscription EXCEPT
                           !.timer = IF subscription.disposed THEN @ ELSE TRUE,
                           !.event = "none",
                           !.delivered = None]
    /\ UNCHANGED <<hookVars, aggVars, probe, utilVars>>

\* the function start() returned is called
Teardown ==
    /\ subscription.provider # Undefined
    /\ subscription.teardowns < 2
    /\ subscription' = [subscription EXCEPT !.disposed = TRUE,
                                            !.timer = FALSE,
                                            !.watching = FALSE,
                                            !.event = "none",
                                            !.delivered = None,
                                            !.teardowns = @ + 1]
    /\ UNCHANGED <<hookVars, aggVars, probe, utilVars>>

NextProvider ==
    \/ \E p \in ProviderNames, io \in IoResults : Probe(p, io)
    \/ \E p \in ProviderNames, ms \in RefreshIntervals : ProviderStart(p, ms)
    \/ \E i \in 1..MaxInFlight, io \in IoResults : AwaitCompletes(i, io)
    \/ TimerFires
    \/ WatchEvent
    \/ Teardown

SpecProvider == Init /\ [][NextProvider]_vars

(***************************************************************************)
(* The rolling history and its CSV export (lib/history.ts, utils/csv.ts).  *)
(* A text is the sequence of its characters; the CSV text is kept as its   *)
(* rows and their cells, which join(',') and join('\n') concatenate.       *)
(***************************************************************************)
MaxPushes == 4
MaxLimit == 2

Min(a, b) == IF a <= b THEN a ELSE b

\* buffer.splice(0, deleteCount): the buffer without its first deleteCount
\* elements, deleteCount clamped to 0..buffer.length
SpliceFromStart(buffer, deleteCount) ==
    SubSeq(buffer, Min(Max(deleteCount, 0), Len(buffer)) + 1, Len(buffer))

\* a slip: the newest samples evicted instead of the oldest
pushSampleEvictingNewest(buffer, value, limit, now) ==
    LET appended == Append(buffer, [t |-> now, v |-> value])
    IN  IF Len(appended) > limit THEN SubSeq(appended, 1, Max(limit, 0)) ELSE appended

\* pushSample (history.ts, lines 52-57), Date.now() being `now`
pushSample(buffer, value, limit, now) ==
    LET appended == Append(buffer, [t |-> now, v |-> value])
    IN  IF Len(appended) > limit
        THEN SpliceFromStart(appended, Len(appended) - limit)
        ELSE appended

DIGITS == <<"0", "1", "2", "3", "4", "5", "6", "7", "8", "9">>

\* String(value) of a natural number
RECURSIVE String(_)
String(n) ==
    IF n < 10 THEN <<DIGITS[n + 1]>>
    ELSE String(n \div 10) \o <<DIGITS[(n % 10) + 1]>>

\* new Date(t).toISOString() within the first second of the epoch
toISOString(t) ==
    <<"1", "9", "7", "0", "-", "0", "1", "-", "0", "1", "T",
      "0", "0", ":", "0", "0", ":", "0", "0", ".">>
      \o <<DIGITS[((t \div 100) % 10) + 1], DIGITS[((t \div 10) % 10) + 1],
           DIGITS[(t % 10) + 1], "Z">>

\* value.replace(/"/g, '""')
RECURSIVE DoubleQuotes(_)
DoubleQuotes(value) ==
    IF value = <<>> THEN <<>>
    ELSE (IF Head(value) = "\"" THEN <<"\"", "\"">> ELSE <<Head(value)>>)
            \o DoubleQuotes(Tail(value))

\* escapeCell (csv.ts, lines 53-59)
escapeCell(value) ==
    IF \E i \in DOMAIN value : value[i] \in {"\"", ",", "\n"}
    THEN <<"\"">> \o DoubleQuotes(value) \o <<"\"">>
    ELSE value

TIMESTAMP == <<"t", "i", "m", "e", "s", "t", "a", "m", "p">>

\* Math.max(0, ...lengths)
RECURSIVE MaxOf(_)
MaxOf(lengths) ==
    IF lengths = <<>> THEN 0 ELSE Max(Head(lengths), MaxOf(Tail(lengths)))

\* a slip: the timestamp of a row taken from the last series that has it
RECURSIVE RowCellsLastStamp(_, _, _)
RowCellsLastStamp(series, index, timestamp) ==
    IF series = <<>> THEN <<timestamp>>
    ELSE LET item == Head(series)
             has == index <= Len(item.samples)
             stamp == IF has THEN toISOString(item.samples[index].t) ELSE timestamp
             rest == RowCellsLastStamp(Tail(series), index, stamp)
         IN  <<Head(rest)>>
                \o <<IF has THEN escapeCell(String(item.samples[index].v)) ELSE <<>>>>
                \o Tail(rest)

\* the loop over the series for one index (csv.ts, lines 68-83): the cells
\* of the row, the timestamp first
RECURSIVE RowCells(_, _, _)
RowCells(series, index, timestamp) ==
    IF series = <<>> THEN <<timestamp>>
    ELSE LET item == Head(series)
             has == index <= Len(item.samples)
             stamp == IF has /\ timestamp = <<>>
                      THEN toISOString(item.samples[index].t)
                      ELSE timestamp
             rest == RowCells(Tail(series), index, stamp)
         IN  <<Head(rest)>>
                \o <<IF has THEN escapeCell(String(item.samples[index].v)) ELSE <<>>>>
                \o Tail(rest)

\* buildHistoryCsv (csv.ts, lines 61-87)
buildHistoryCsv(series) ==
    LET headers == <<TIMESTAMP>> \o [k \in DOMAIN series |-> escapeCell(series[k].label)]
        maxLength == MaxOf([k \in DOMAIN series |-> Len(series[k].samples)])
    IN  <<headers>> \o [index \in 1..maxLength |-> RowCells(series, index, <<>>)]

\* the series an export can be given: each row of the table at most once
InitialSeries ==
    {<<>>} \cup {<<HistorySeries(a)>> : a \in SeriesKeys}
           \cup {<<HistorySeries(pair[1]), HistorySeries(pair[2])>> :
                    pair \in {p \in SeriesKeys \X SeriesKeys : p[1] # p[2]}}

Limits == (1..MaxLimit) \cup {MAX_HISTORY_SAMPLES}

InitHistory ==
    /\ state = InitialState
    /\ availableProviders = <<>>
    /\ retryToken = 0
    /\ refreshIntervalMs = DEFAULT_REFRESH_MS
    /\ mounted = TRUE
    /\ sessions = <<NewSession>>
    /\ samplesMap = EmptyMap
    /\ aggregated = <<>>
    /\ subscription = NotStarted
    /\ probe = NotProbed
    /\ historyRef \in {[NoHistory EXCEPT !.limit = l, !.series = s] :
                          l \in Limits, s \in InitialSeries}
    /\ pushed = NothingPushed
    /\ csv = None
    /\ invocation = NoCall
    /\ rapl = NoDomain
    /\ instance = NoInstance

\* pushSample(buffer, value, limit) on the buffer of the k-th series
PushSample(k, value) ==
    /\ historyRef.now < MaxPushes
    /\ k \in DOMAIN historyRef.series
    /\ historyRef' =
         [historyRef EXCEPT
            !.now = @ + 1,
            !.series[k].samples = pushSample(@, value, historyRef.limit, historyRef.now)]
    /\ pushed' = [pushed EXCEPT ![historyRef.series[k].key] = Append(@, value)]
    /\ csv' = None
    /\ UNCHANGED <<hookVars, aggVars, provVars, invocation, rapl, instance>>

\* buildHistoryCsv(series)
ExportCsv ==
    /\ csv = None
    /\ csv' = Some(buildHistoryCsv(historyRef.series))
    /\ UNCHANGED <<hookVars, aggVars, provVars, historyRef, pushed, invocation, rapl, instance>>

NextHistory ==
    \/ \E k \in 1..Cardinality(SeriesKeys), value \in 0..MaxValue : PushSample(k, value)
    \/ ExportCsv

SpecHistory == InitHistory /\ [][NextHistory]_vars

(***************************************************************************)
(* The pure helpers.  A JavaScript value is a tuple that starts with its   *)
(* sort; a string is the sequence of its characters; an object is a        *)
(* record of its own properties.                                           *)
(***************************************************************************)
JsUndefined == <<"undefined">>
JsNull == <<"null">>
JsNaN == <<"NaN">>
JsNumber(n) == <<"number", n>>
JsString(chars) == <<"string", chars>>
JsArray(items) == <<"array", items>>
JsObject(properties) == <<"object", properties>>

\* typeof value
typeOf(value) ==
    CASE value[1] \in {"number", "NaN"} -> "number"
      [] value[1] = "string" -> "string"
      [] value[1] = "undefined" -> "undefined"
      [] OTHER -> "object"

\* !value
Falsy(value) ==
    CASE value[1] \in {"undefined", "null", "NaN"} -> TRUE
      [] value[1] = "number" -> value[2] = 0
      [] value[1] = "string" -> value[2] = <<>>
      [] OTHER -> FALSE

\* object.property
Get(object, property) ==
    IF property \in DOMAIN object[2] THEN object[2][property] ELSE JsUndefined

\* a ?? b
Coalesce(a, b) == IF a[1] \in {"undefined", "null"} THEN b ELSE a

\* value.trim()
RECURSIVE trimStart(_)
trimStart(chars) ==
    IF chars # <<>> /\ Head(chars) = " " THEN trimStart(Tail(chars)) ELSE chars

RECURSIVE trimEnd(_)
trimEnd(chars) ==
    IF chars # <<>> /\ chars[Len(chars)] = " "
    THEN trimEnd(SubSeq(chars, 1, Len(chars) - 1))
    ELSE chars

trim(chars) == trimEnd(trimStart(chars))

\* Number.parseFloat(text) of a text of digits: the number its leading
\* digits write, or NaN (None) when it starts with none
RECURSIVE LeadingDigits(_)
LeadingDigits(chars) ==
    IF chars # <<>> /\ \E d \in DOMAIN DIGITS : DIGITS[d] = Head(chars)
    THEN <<Head(chars)>> \o LeadingDigits(Tail(chars))
    ELSE <<>>

RECURSIVE DecimalValue(_)
DecimalValue(digits) ==
    IF digits = <<>> THEN 0
    ELSE 10 * DecimalValue(SubSeq(digits, 1, Len(digits) - 1))
            + (CHOOSE d \in 0..9 : DIGITS[d + 1] = digits[Len(digits)])

parseFloat(chars) ==
    IF LeadingDigits(trimStart(chars)) = <<>> THEN None
    ELSE Some(DecimalValue(LeadingDigits(trimStart(chars))))

\* an object whose keys the code enumerates or takes apart: the sequence of
\* its entries <<key, value>>, the keys being texts
JsEntries(entries) == <<"entries", entries>>

\* isRecord (parseSensorsJson.ts, lines 157-158)
isRecord(value) == value[1] \in {"object", "entries"}

\* Array.isArray(value)
isArray(value) == value[1] = "array"

\* isNonEmptyString (lines 160-161)
isNonEmptyString(value) == value[1] = "string" /\ trim(value[2]) # <<>>

\* coerceNumber (lines 163-178): the number, or None for undefined
coerceNumber(value) ==
    CASE value[1] = "number" -> Some(value[2])
      [] value[1] = "NaN" -> None
      [] value[1] = "string" ->
            IF trim(value[2]) = <<>> THEN None ELSE parseFloat(trim(value[2]))
      [] OTHER -> None

UPPER == <<"A", "B", "C", "D", "E", "F", "G", "H", "I", "J", "K", "L", "M",
           "N", "O", "P", "Q", "R", "S", "T", "U", "V", "W", "X", "Y", "Z">>
LOWER == <<"a", "b", "c", "d", "e", "f", "g", "h", "i", "j", "k", "l", "m",
           "n", "o", "p", "q", "r", "s", "t", "u", "v", "w", "x", "y", "z">>

\* value.toLowerCase()
toLowerCase(chars) ==
    [i \in DOMAIN chars |->
        IF \E k \in DOMAIN UPPER : UPPER[k] = chars[i]
        THEN LOWER[CHOOSE k \in DOMAIN UPPER : UPPER[k] = chars[i]]
        ELSE chars[i]]

\* parseCategory (lines 180-195)
parseCategory(value) ==
    IF value[1] # "string" THEN "unknown"
    ELSE CASE toLowerCase(value[2]) = <<"t", "e", "m", "p", "e", "r", "a", "t", "u", "r", "e">>
                -> "temperature"
           [] toLowerCase(value[2]) = <<"f", "a", "n">> -> "fan"
           [] toLowerCase(value[2]) = <<"v", "o", "l", "t", "a", "g", "e">> -> "voltage"
           [] toLowerCase(value[2]) = <<"p", "o", "w", "e", "r">> -> "power"
           [] OTHER -> "unknown"

\* an optional property of a result: absent when the value is None
Optional(property, value) == IF value = None THEN <<>> ELSE (property :> value[1])

\* parseReading (lines 197-237): the Reading, or None for null
parseReading(raw, fallbackLabel) ==
    IF ~isRecord(raw) THEN None
    ELSE IF coerceNumber(Get(raw, "input")) = None THEN None
    ELSE LET labelSource == IF isNonEmptyString(Get(raw, "label")) THEN Get(raw, "label")[2]
                            ELSE IF isNonEmptyString(Get(raw, "name")) THEN Get(raw, "name")[2]
                            ELSE fallbackLabel
             min == coerceNumber(Coalesce(Coalesce(Get(raw, "min"), Get(raw, "lower")),
                                          Get(raw, "low")))
             max == coerceNumber(Coalesce(Coalesce(Get(raw, "max"), Get(raw, "upper")),
                                          Get(raw, "high")))
             critical == coerceNumber(Coalesce(Coalesce(Get(raw, "critical"), Get(raw, "crit")),
                                               Get(raw, "crit_max")))
         IN  Some([label |-> trim(labelSource), input |-> coerceNumber(Get(raw, "input"))[1]]
                    @@ Optional("min", min) @@ Optional("max", max)
                    @@ Optional("critical", critical)
                    @@ (IF isNonEmptyString(Get(raw, "unit"))
                        THEN [unit |-> trim(Get(raw, "unit")[2])] ELSE <<>>))

\* array.filter(item => item !== null) on parsed items
RECURSIVE NotNull(_)
NotNull(items) ==
    IF items = <<>> THEN <<>>
    ELSE (IF Head(items) = None THEN <<>> ELSE <<Head(items)[1]>>) \o NotNull(Tail(items))

\* parseGroup (lines 239-274): the SensorChipGroup, or None for null;
\* index counts from 0
parseGroup(raw, index) ==
    IF ~isRecord(raw) THEN None
    ELSE LET id == IF isNonEmptyString(Get(raw, "id")) THEN trim(Get(raw, "id")[2])
                   ELSE <<"c", "h", "i", "p", "-">> \o String(index)
             name == IF isNonEmptyString(Get(raw, "name")) THEN trim(Get(raw, "name")[2]) ELSE id
             label == IF isNonEmptyString(Get(raw, "label")) THEN trim(Get(raw, "label")[2])
                      ELSE name
             rawReadings == IF isArray(Get(raw, "readings")) THEN Get(raw, "readings")[2]
                            ELSE IF isArray(Get(raw, "values")) THEN Get(raw, "values")[2]
                            ELSE <<>>
             readings == NotNull([i \in DOMAIN rawReadings |->
                            parseReading(rawReadings[i], label \o <<" ">> \o String(i))])
         IN  IF readings = <<>> THEN None
             ELSE Some([id |-> id, name |-> name, label |-> label,
                        category |-> parseCategory(Get(raw, "category")),
                        readings |-> readings]
                       @@ (IF isNonEmptyString(Get(raw, "source"))
                           THEN [source |-> trim(Get(raw, "source")[2])] ELSE <<>>))

\* the groups of a payload (lines 287-299)
ParsedGroups(raw) ==
    LET container == IF isRecord(raw) THEN raw ELSE JsObject(<<>>)
        rawGroups == IF isArray(raw) THEN raw[2]
                     ELSE IF isArray(Get(container, "chips")) THEN Get(container, "chips")[2]
                     ELSE IF isArray(Get(container, "groups")) THEN Get(container, "groups")[2]
                     ELSE <<>>
    IN  NotNull([i \in DOMAIN rawGroups |-> parseGroup(rawGroups[i], i - 1)])

\* the timestamp of a payload (line 301)
ParsedTimestamp(raw) ==
    LET container == IF isRecord(raw) THEN raw ELSE JsObject(<<>>)
    IN  coerceNumber(Coalesce(Coalesce(Get(container, "timestamp"), Get(container, "updated")),
                              Get(container, "time")))

\* the earlier version of the function (parseSensorsJson.ts, lines 123-149),
\* which tests the timestamp for truth
parseSensorsJsonByTruth(raw) ==
    IF Falsy(raw) THEN EMPTY_SENSOR_DATA
    ELSE LET timestamp == ParsedTimestamp(raw)
             kept == IF timestamp # None /\ timestamp[1] # 0 THEN timestamp ELSE None
         IN  [groups |-> ParsedGroups(raw)] @@ Optional("timestamp", kept)

\* parseSensorsJson (lines 282-310)
parseSensorsJson(raw) ==
    IF Falsy(raw) THEN EMPTY_SENSOR_DATA
    ELSE IF ParsedGroups(raw) = <<>>
         THEN (IF ParsedTimestamp(raw) # None
               THEN [groups |-> <<>>, timestamp |-> ParsedTimestamp(raw)[1]]
               ELSE EMPTY_SENSOR_DATA)
         ELSE [groups |-> ParsedGroups(raw)] @@ Optional("timestamp", ParsedTimestamp(raw))

\* raw readings and groups of a payload
RawReadings ==
    {JsNull,
     JsObject([input |-> JsNumber(42), label |-> JsString(<<"R">>)]),
     JsObject([input |-> JsString(<<" ", "7">>), name |-> JsString(<<"N", " ">>),
               lower |-> JsNumber(1), max |-> JsString(<<"9">>),
               crit |-> JsNumber(0), unit |-> JsString(<<"C">>)]),
     JsObject([input |-> JsString(<<"x">>)])}

RawGroups ==
    {JsNull,
     JsObject([id |-> JsString(<<"c", "1">>), category |-> JsString(<<"F", "a", "n">>),
               readings |-> JsArray(<<>>)])}
    \cup {JsObject([id |-> JsString(<<"c", "1">>), label |-> JsString(<<"L">>),
                     category |-> JsString(<<"F", "a", "n">>), source |-> JsString(<<"s">>),
                     readings |-> JsArray(<<r>>)]) : r \in RawReadings}
    \cup {JsObject([values |-> JsArray(<<r>>)]) : r \in RawReadings}

RawTimestamps ==
    {JsUndefined, JsNull, JsNaN, JsNumber(0), JsNumber(7),
     JsString(<<"7">>), JsString(<<" ">>)}

\* the payloads: nothing, a bare array of groups, or an object
RawPayloads ==
    {JsUndefined, JsNull, JsNumber(0), JsString(<<>>)}
    \cup {JsArray(gs) : gs \in SeqsUpTo(RawGroups, MaxLen)}
    \cup {JsObject([timestamp |-> t, updated |-> u, chips |-> JsArray(gs)]) :
            t \in RawTimestamps, u \in {JsUndefined, JsNumber(0), JsNumber(8)},
            gs \in SeqsUpTo(RawGroups, MaxLen)}
    \cup {JsObject([time |-> t, groups |-> JsArray(gs)]) :
            t \in RawTimestamps, gs \in SeqsUpTo(RawGroups, MaxLen)}

\* utils/units.ts (part_002, line 3), written without the degree sign as in
\* SENSOR_KIND_TO_UNIT
CELSIUS_UNIT == "C"

\* utils/thresholds.ts (part_000, line 6)
WARNING_MARGIN_CELSIUS == 5

\* a slip: the warning margin tested before the thresholds
getThresholdStateMarginFirst(reading) ==
    IF reading.input = None THEN "normal"
    ELSE IF reading.max # None /\ reading.unit = CELSIUS_UNIT
            /\ reading.input[1] >= reading.max[1] - WARNING_MARGIN_CELSIUS
    THEN "warning"
    ELSE IF reading.critical # None /\ reading.input[1] >= reading.critical[1] THEN "danger"
    ELSE IF reading.max # None /\ reading.input[1] >= reading.max[1] THEN "danger"
    ELSE "normal"

\* getThresholdState (part_000, lines 8-28); an absent property is None
getThresholdState(reading) ==
    IF reading.input = None THEN "normal"
    ELSE IF reading.critical # None /\ reading.input[1] >= reading.critical[1] THEN "danger"
    ELSE IF reading.max # None /\ reading.input[1] >= reading.max[1] THEN "danger"
    ELSE IF reading.max # None /\ reading.unit = CELSIUS_UNIT
            /\ reading.input[1] >= reading.max[1] - WARNING_MARGIN_CELSIUS
    THEN "warning"
    ELSE "normal"

\* the readings of the threshold tests (part_003, lines 42-48) and around
Readings ==
    [input : {None} \cup {Some(n) : n \in {40} \cup (70..95)},
     max : {None, Some(80)},
     critical : {None, Some(78), Some(90)},
     unit : {CELSIUS_UNIT, "RPM", Undefined}]

\* a slip: 200 itself taken for Kelvin
convertTemperatureFrom200(raw) ==
    IF raw[1] # "number" THEN None
    ELSE IF raw[2] >= 200 THEN Some(raw[2] - 273) ELSE Some(raw[2])

\* convertTemperature (nvme.ts, part_005 lines 68-79): None for undefined
convertTemperature(raw) ==
    IF typeOf(raw) # "number" \/ raw[1] = "NaN" THEN None
    ELSE IF raw[2] > 200 THEN Some(raw[2] - 273) ELSE Some(raw[2])

RawTemperatures == {JsUndefined, JsNaN} \cup {JsNumber(n) : n \in (-5)..380}

\* object?.property
OptionalGet(object, property) ==
    IF object[1] \in {"undefined", "null"} THEN JsUndefined ELSE Get(object, property)

\* Number.isFinite(value)
isFinite(value) == value[1] = "number"

\* table.find(a => a.id === attrId): the first such entry, or undefined
find(table, attrId) ==
    IF \E k \in DOMAIN table : Get(table[k], "id") = JsNumber(attrId)
    THEN table[CHOOSE k \in DOMAIN table :
                 /\ Get(table[k], "id") = JsNumber(attrId)
                 /\ \A j \in 1..(k - 1) : Get(table[j], "id") # JsNumber(attrId)]
    ELSE JsUndefined

\* a slip: the first entry of the table that has one of the two ids
extractTemperatureInTableOrder(data) ==
    LET current == OptionalGet(Get(data, "temperature"), "current")
        table == OptionalGet(Get(data, "ata_smart_attributes"), "table")
        usable == IF isArray(table)
                  THEN {k \in DOMAIN table[2] :
                          /\ Get(table[2][k], "id") \in {JsNumber(194), JsNumber(190)}
                          /\ isFinite(Get(table[2][k], "value"))}
                  ELSE {}
    IN  IF current # JsUndefined /\ isFinite(current) THEN Some(current[2])
        ELSE IF usable = {} THEN None
        ELSE Some(Get(table[2][CHOOSE k \in usable : \A j \in usable : k <= j], "value")[2])

\* extractTemperature of smartctl (__tests__/nvme.test.ts, lines 183-204)
extractTemperature(data) ==
    LET current == OptionalGet(Get(data, "temperature"), "current")
        table == OptionalGet(Get(data, "ata_smart_attributes"), "table")
        value(attrId) == OptionalGet(find(table[2], attrId), "value")
    IN  IF current # JsUndefined /\ isFinite(current) THEN Some(current[2])
        ELSE IF ~isArray(table) THEN None
        ELSE IF value(194) # JsUndefined /\ isFinite(value(194)) THEN Some(value(194)[2])
        ELSE IF value(190) # JsUndefined /\ isFinite(value(190)) THEN Some(value(190)[2])
        ELSE None

\* the entries of a SMART attribute table: an id, and a value that is a
\* number of its own, not finite, or absent
SmartAttributes ==
    {JsObject([id |-> JsNumber(id), value |-> JsNumber(id % 100)]) : id \in {194, 190, 5}}
    \cup {JsObject([id |-> JsNumber(id), value |-> JsNaN]) : id \in {194, 190}}
    \cup {JsObject([id |-> JsNumber(id)]) : id \in {194, 190}}

\* the tables: every id at most once, in every order
SmartTables ==
    {table \in SeqsUpTo(SmartAttributes, 3) :
        \A j, k \in DOMAIN table : j # k => Get(table[j], "id") # Get(table[k], "id")}

SmartctlData ==
    {JsObject([temperature |-> t, ata_smart_attributes |-> JsObject([table |-> JsArray(table)])]) :
        t \in {JsUndefined, JsObject(<<>>), JsObject([current |-> JsNaN]),
               JsObject([current |-> JsNumber(36)])},
        table \in SmartTables}
    \cup {JsObject([temperature |-> JsObject([current |-> c])]) : c \in {JsNaN, JsNumber(36)}}
    \cup {JsObject([ata_smart_attributes |-> a]) : a \in {JsObject(<<>>), JsObject([table |-> JsNull])}}
    \cup {JsObject(<<>>)}

\* lm-sensors.ts (part_004), line 74
INPUT_SUFFIX == <<"_", "i", "n", "p", "u", "t">>

\* text.endsWith(suffix)
endsWith(chars, suffix) ==
    /\ Len(chars) >= Len(suffix)
    /\ SubSeq(chars, Len(chars) - Len(suffix) + 1, Len(chars)) = suffix

\* the match of /^([a-zA-Z]+)/: the leading letters
RECURSIVE LeadingLetters(_)
LeadingLetters(chars) ==
    IF chars # <<>> /\ Head(chars) \in Range(UPPER) \cup Range(LOWER)
    THEN <<Head(chars)>> \o LeadingLetters(Tail(chars))
    ELSE <<>>

\* sensorKindForKey (part_004, lines 76-96)
sensorKindForKey(key) ==
    LET prefix == toLowerCase(LeadingLetters(key))
    IN  CASE prefix = <<"t", "e", "m", "p">> -> "temp"
          [] prefix = <<"f", "a", "n">> -> "fan"
          [] prefix \in {<<"i", "n">>, <<"v", "i", "n">>, <<"v", "c", "c">>} -> "volt"
          [] OTHER -> "other"

\* text is one or more digits
AllDigits(chars) ==
    chars # <<>> /\ \A i \in DOMAIN chars : \E d \in DOMAIN DIGITS : DIGITS[d] = chars[i]

\* prettifyLabel (part_004, lines 98-111)
prettifyLabel(label) ==
    LET trimmed == trim(label)
        lower == toLowerCase(trimmed)
        after(n) == trimStart(SubSeq(trimmed, n + 1, Len(trimmed)))
    IN  IF Len(lower) > 10 /\ SubSeq(lower, 1, 10) = <<"p", "a", "c", "k", "a", "g", "e", " ", "i", "d">> /\ AllDigits(after(10))
        THEN <<"C", "P", "U", " ", "P", "a", "c", "k", "a", "g", "e">>
        ELSE IF Len(lower) > 4 /\ SubSeq(lower, 1, 4) = <<"c", "o", "r", "e">> /\ AllDigits(after(4))
        THEN <<"C", "P", "U", " ", "C", "o", "r", "e", " ">> \o after(4)
        ELSE trimmed

\* record[key] of an object kept as its entries
Lookup(record, key) ==
    IF \E k \in DOMAIN record[2] : record[2][k][1] = key
    THEN record[2][CHOOSE k \in DOMAIN record[2] : record[2][k][1] = key][2]
    ELSE JsUndefined

\* buildSample of lm-sensors (part_004, lines 138-182): the sample, or None
\* for null; the optional properties are None when undefined
lmSensorsBuildSample(chipId, chipLabel, groupKey, featureKey, featureValue, featureRecord) ==
    IF coerceNumber(featureValue) = None THEN None
    ELSE LET kind == sensorKindForKey(featureKey)
             baseKey == IF endsWith(featureKey, INPUT_SUFFIX)
                        THEN SubSeq(featureKey, 1, Len(featureKey) - Len(INPUT_SUFFIX))
                        ELSE featureKey
             at(suffix) == Lookup(featureRecord, baseKey \o suffix)
             labelCandidate == at(<<"_", "l", "a", "b", "e", "l">>)
             label == IF isNonEmptyString(labelCandidate) THEN trim(labelCandidate[2])
                      ELSE IF trim(groupKey) # <<>> /\ groupKey # chipId THEN groupKey
                      ELSE baseKey
         IN  Some([kind |-> kind,
                   id |-> chipId \o <<":">> \o baseKey,
                   label |-> prettifyLabel(label),
                   value |-> coerceNumber(featureValue)[1],
                   min |-> coerceNumber(Coalesce(at(<<"_", "m", "i", "n">>), at(<<"_", "l", "o", "w">>))),
                   max |-> coerceNumber(Coalesce(Coalesce(at(<<"_", "m", "a", "x">>), at(<<"_", "h", "i", "g", "h">>)),
                                                 at(<<"_", "c", "r", "i", "t">>))),
                   critical |-> coerceNumber(at(<<"_", "c", "r", "i", "t">>)),
                   unit |-> SENSOR_KIND_TO_UNIT(kind),
                   chipId |-> chipId,
                   chipLabel |-> chipLabel,
                   chipName |-> chipId,
                   category |-> SENSOR_KIND_TO_CATEGORY(kind)])

\* collectGroupSamples (part_004, lines 184-204), from the k-th entry on
RECURSIVE collectGroupSamples(_, _, _, _, _)
collectGroupSamples(chipId, chipLabel, groupKey, groupValue, k) ==
    IF k > Len(groupValue[2]) THEN <<>>
    ELSE LET featureKey == groupValue[2][k][1]
             sample == lmSensorsBuildSample(chipId, chipLabel, groupKey, featureKey,
                                            groupValue[2][k][2], groupValue)
         IN  (IF endsWith(featureKey, INPUT_SUFFIX) /\ sample # None
              THEN <<sample[1]>> ELSE <<>>)
                \o collectGroupSamples(chipId, chipLabel, groupKey, groupValue, k + 1)

\* the loop over the entries of a chip (part_004, lines 222-244), from the
\* k-th entry on
RECURSIVE ChipSamples(_, _, _, _)
ChipSamples(chipId, chipLabel, chipValue, k) ==
    IF k > Len(chipValue[2]) THEN <<>>
    ELSE LET sensorKey == chipValue[2][k][1]
             sensorValue == chipValue[2][k][2]
             sample == lmSensorsBuildSample(chipId, chipLabel, chipId, sensorKey,
                                            sensorValue, chipValue)
         IN  (CASE sensorKey = <<"A", "d", "a", "p", "t", "e", "r">> -> <<>>
                [] endsWith(sensorKey, INPUT_SUFFIX) ->
                      IF sample # None THEN <<sample[1]>> ELSE <<>>
                [] ~isRecord(sensorValue) -> <<>>
                [] OTHER -> collectGroupSamples(chipId, chipLabel, sensorKey, sensorValue, 1))
                \o ChipSamples(chipId, chipLabel, chipValue, k + 1)

\* the loop over the chips (part_004, lines 213-245), from the k-th on
RECURSIVE PayloadSamples(_, _)
PayloadSamples(payload, k) ==
    IF k > Len(payload[2]) THEN <<>>
    ELSE LET chipId == payload[2][k][1]
             chipValue == payload[2][k][2]
             adapter == IF isRecord(chipValue) THEN Lookup(chipValue, <<"A", "d", "a", "p", "t", "e", "r">>)
                        ELSE JsUndefined
             chipLabel == IF isNonEmptyString(adapter)
                          THEN chipId \o <<" ", "(">> \o trim(adapter[2]) \o <<")">>
                          ELSE chipId
         IN  (IF isRecord(chipValue) THEN ChipSamples(chipId, chipLabel, chipValue, 1)
              ELSE <<>>)
                \o PayloadSamples(payload, k + 1)

\* normalizeLmSensors (part_004, lines 206-248)
normalizeLmSensors(payload) ==
    IF ~isRecord(payload) THEN <<>> ELSE PayloadSamples(payload, 1)

\* the names of the feature groups of the tests (part_006, lines 47-59)
GroupNames == {<<"f", "a", "n", "1">>, <<"i", "n", "0">>, <<"t", "e", "m", "p", "1">>}

\* the entries of a chip: a feature group with a bare input, with the
\* suffixed keys of `sensors -j`, or without an input; a key that ends in
\* _input on the chip itself; the adapter
ChipEntries ==
    {<<name, JsEntries(<<<<<<"i", "n", "p", "u", "t">>, JsNumber(30)>>, <<<<"m", "i", "n">>, JsNumber(1)>>>>)>> :
        name \in GroupNames}
    \cup {<<name, JsEntries(<<<<name \o INPUT_SUFFIX, JsNumber(40)>>,
                             <<name \o <<"_", "m", "a", "x">>, JsNumber(80)>>,
                             <<name \o <<"_", "l", "a", "b", "e", "l">>, JsString(<<"C", "o", "r", "e", " ", "0">>)>>>>)>> :
            name \in GroupNames}
    \cup {<<name, JsEntries(<<<<name \o <<"_", "m", "a", "x">>, JsNumber(80)>>>>)>> : name \in GroupNames}
    \cup {<<<<"t", "e", "m", "p", "2", "_", "i", "n", "p", "u", "t">>, JsNumber(50)>>,
          <<<<"A", "d", "a", "p", "t", "e", "r">>, JsString(<<"I", "S", "A">>)>>}

\* the payloads: one chip with up to two entries of different keys, or no
\* object at all
LmSensorsPayloads ==
    {JsNull, JsEntries(<<>>), JsEntries(<<<<<<"c", "h", "i", "p">>, JsNull>>>>)}
    \cup {JsEntries(<<<<<<"c", "h", "i", "p">>, JsEntries(entries)>>>>) :
            entries \in {e \in SeqsUpTo(ChipEntries, 2) :
                            \A j, k \in DOMAIN e : j # k => e[j][1] # e[k][1]}}

\* the longest array handed to samplesToSensorData
MaxSamples == 3

\* the arrays aggregateSamples hands to samplesToSensorData: samples of one
\* provider with distinct (kind, id), with and without a chip and a
\* category of their own
GroupableSamples ==
    {WithProvider([Sample(kind, id, 1) EXCEPT !.chipId = chipId, !.category = category],
                  PRIMARY_PROVIDERS[1]) :
        kind \in {"temp", "fan"}, id \in {1, 2},
        chipId \in {None, Some(1)}, category \in {Undefined, "fan"}}

AggregatedSamples ==
    {samples \in SeqsUpTo(GroupableSamples, MaxSamples) :
        \A i, j \in DOMAIN samples : i # j => dedupeKey(samples[i]) # dedupeKey(samples[j])}

InitHelpers ==
    /\ state = InitialState
    /\ availableProviders = <<>>
    /\ retryToken = 0
    /\ refreshIntervalMs = DEFAULT_REFRESH_MS
    /\ mounted = TRUE
    /\ sessions = <<NewSession>>
    /\ samplesMap = EmptyMap
    /\ aggregated = <<>>
    /\ subscription = NotStarted
    /\ probe = NotProbed
    /\ historyRef = NoHistory
    /\ pushed = NothingPushed
    /\ csv = None
    /\ rapl = NoDomain
    /\ instance = NoInstance
    /\ \/ invocation \in {[fn |-> "parseSensorsJson", input |-> raw, result |-> None] :
                              raw \in RawPayloads}
       \/ invocation \in {[fn |-> "getThresholdState", input |-> reading, result |-> None] :
                              reading \in Readings}
       \/ invocation \in {[fn |-> "convertTemperature", input |-> raw, result |-> None] :
                              raw \in RawTemperatures}
       \/ invocation \in {[fn |-> "extractTemperature", input |-> data, result |-> None] :
                              data \in SmartctlData}
       \/ invocation \in {[fn |-> "normalizeLmSensors", input |-> payload, result |-> None] :
                              payload \in LmSensorsPayloads}
       \/ invocation \in {[fn |-> "samplesToSensorData", input |-> samples, result |-> None] :
                              samples \in AggregatedSamples}

\* parseSensorsJson(raw)
ParseSensorsJson ==
    /\ invocation.fn = "parseSensorsJson"
    /\ invocation.result = None
    /\ invocation' = [invocation EXCEPT !.result = Some(parseSensorsJson(invocation.input))]
    /\ UNCHANGED <<hookVars, aggVars, provVars, historyRef, pushed, csv, rapl, instance>>

\* getThresholdState(reading)
GetThresholdState ==
    /\ invocation.fn = "getThresholdState"
    /\ invocation.result = None
    /\ invocation' = [invocation EXCEPT !.result = Some(getThresholdState(invocation.input))]
    /\ UNCHANGED <<hookVars, aggVars, provVars, historyRef, pushed, csv, rapl, instance>>

\* convertTemperature(raw); the result is kept as it is, None for undefined
ConvertTemperature ==
    /\ invocation.fn = "convertTemperature"
    /\ invocation.result = None
    /\ invocation' = [invocation EXCEPT !.result = Some(convertTemperature(invocation.input))]
    /\ UNCHANGED <<hookVars, aggVars, provVars, historyRef, pushed, csv, rapl, instance>>

\* extractTemperature(data)
ExtractTemperature ==
    /\ invocation.fn = "extractTemperature"
    /\ invocation.result = None
    /\ invocation' = [invocation EXCEPT !.result = Some(extractTemperature(invocation.input))]
    /\ UNCHANGED <<hookVars, aggVars, provVars, historyRef, pushed, csv, rapl, instance>>

\* normalizeLmSensors(payload)
NormalizeLmSensors ==
    /\ invocation.fn = "normalizeLmSensors"
    /\ invocation.result = None
    /\ invocation' = [invocation EXCEPT !.result = Some(normalizeLmSensors(invocation.input))]
    /\ UNCHANGED <<hookVars, aggVars, provVars, historyRef, pushed, csv, rapl, instance>>

\* samplesToSensorData(samples)
SamplesToSensorData ==
    /\ invocation.fn = "samplesToSensorData"
    /\ invocation.result = None
    /\ invocation' = [invocation EXCEPT !.result = Some(samplesToSensorData(invocation.input))]
    /\ UNCHANGED <<hookVars, aggVars, provVars, historyRef, pushed, csv, rapl, instance>>

NextHelpers ==
    \/ ParseSensorsJson
    \/ GetThresholdState
    \/ ConvertTemperature
    \/ ExtractTemperature
    \/ NormalizeLmSensors
    \/ SamplesToSensorData

SpecHelpers == InitHelpers /\ [][NextHelpers]_vars

(***************************************************************************)
(* The history effect of the sensor table (components/SensorTable.tsx,     *)
(* lines 185-217): historyRef.series is the Map of the buffers, a series   *)
(* for each key, in the order the keys were set.                           *)
(***************************************************************************)
\* refreshes of the table
MaxRefreshes == 4

\* the first loop of the effect (lines 190-205): a sample pushed for every
\* row with a finite input, into the buffer of its key or into a new one
RECURSIVE PushRows(_, _, _)
PushRows(history, rows, now) ==
    IF rows = <<>> THEN history
    ELSE LET row == Head(rows)
             known == \E k \in DOMAIN history : history[k].key = row.key
         IN  IF ~isFinite(row.input) THEN PushRows(history, Tail(rows), now)
             ELSE IF known
             THEN PushRows([k \in DOMAIN history |->
                              IF history[k].key = row.key
                              THEN [history[k] EXCEPT !.samples =
                                       pushSample(@, row.input[2], MAX_HISTORY_SAMPLES, now)]
                              ELSE history[k]],
                           Tail(rows), now)
             ELSE PushRows(Append(history,
                                  [HistorySeries(row.key) EXCEPT !.samples =
                                      pushSample(<<>>, row.input[2], MAX_HISTORY_SAMPLES, now)]),
                           Tail(rows), now)

\* history.delete(key) for the keys that are not active (lines 207-212)
RECURSIVE DeleteInactive(_, _)
DeleteInactive(history, activeKeys) ==
    IF history = <<>> THEN <<>>
    ELSE (IF Head(history).key \in activeKeys THEN <<Head(history)>> ELSE <<>>)
            \o DeleteInactive(Tail(history), activeKeys)

\* a slip: the buffers of missing rows are kept
historyEffectKeepingAll(history, rows, now) == PushRows(history, rows, now)

\* the effect: the Map after it has run for `rows`
historyEffect(history, rows, now) ==
    DeleteInactive(PushRows(history, rows, now), {rows[i].key : i \in DOMAIN rows})

\* a row of the table (lines 134-149): its key and its input, a number or
\* a value that is not finite
TableRow(key, input) == [key |-> key, input |-> input]

\* the rows of a refresh: each key at most once
TableRows ==
    LET Row == {TableRow(key, input) : key \in SeriesKeys, input \in {JsNumber(1), JsNaN}}
    IN  {rows \in SeqsUpTo(Row, Cardinality(SeriesKeys)) :
            \A i, j \in DOMAIN rows : i # j => rows[i].key # rows[j].key}

InitTable ==
    /\ state = InitialState
    /\ availableProviders = <<>>
    /\ retryToken = 0
    /\ refreshIntervalMs = DEFAULT_REFRESH_MS
    /\ mounted = TRUE
    /\ sessions = <<NewSession>>
    /\ samplesMap = EmptyMap
    /\ aggregated = <<>>
    /\ subscription = NotStarted
    /\ probe = NotProbed
    /\ historyRef = NoHistory
    /\ pushed = NothingPushed
    /\ csv = None
    /\ invocation = NoCall
    /\ rapl = NoDomain
    /\ instance = NoInstance

\* the rows change and the effect runs (lines 185-217)
HistoryEffect(rows) ==
    /\ historyRef.now < MaxRefreshes
    /\ historyRef' =
         [historyRef EXCEPT
            !.now = @ + 1,
            !.series = historyEffect(@, rows, historyRef.now)]
    /\ pushed' = [key \in SeriesKeys |->
                     LET finite == {i \in DOMAIN rows :
                                       rows[i].key = key /\ isFinite(rows[i].input)}
                     IN  IF finite # {}
                         THEN Append(pushed[key], rows[CHOOSE i \in finite : TRUE].input[2])
                         ELSE pushed[key]]
    /\ invocation' = [fn |-> "historyEffect", input |-> rows, result |-> None]
    /\ UNCHANGED <<hookVars, aggVars, provVars, csv, rapl, instance>>

NextTable == \E rows \in TableRows : HistoryEffect(rows)

SpecTable == InitTable /\ [][NextTable]_vars

(***************************************************************************)
(* powercap: readWatts on one RAPL domain, poll after poll.                *)
(***************************************************************************)
\* the largest counter reading, and the latest time of the clock
MaxEnergy == 3
MaxClock == 2

\* powercap.ts, line 13
MICRO_UNITS_PER_WATT == 1000000

\* the power num / den, in watts
Watts(num, den) == [num |-> num, den |-> den]

\* a slip: the counter's range is never added
readWattsNoWrap(domain, power, energy, now) ==
    LET returns(d, watts) == [domain |-> d, threw |-> FALSE, watts |-> watts]
        throws == [domain |-> domain, threw |-> TRUE, watts |-> None]
        baseline == [domain EXCEPT !.lastEnergy = energy.value, !.lastTimestamp = Some(now)]
    IN  IF domain.powerPath /\ power.denied THEN throws
        ELSE IF domain.powerPath /\ power.value # None
        THEN returns([domain EXCEPT !.cachedPower =
                         Some(Watts(power.value[1], MICRO_UNITS_PER_WATT))],
                     Some(Watts(power.value[1], MICRO_UNITS_PER_WATT)))
        ELSE IF domain.powerPath /\ domain.cachedPower # None
        THEN returns(domain, domain.cachedPower)
        ELSE IF ~domain.energyPath THEN returns(domain, None)
        ELSE IF energy.denied THEN throws
        ELSE IF energy.value = None
        THEN returns([domain EXCEPT !.lastEnergy = None, !.lastTimestamp = None], None)
        ELSE IF domain.lastEnergy = None \/ domain.lastTimestamp = None
        THEN returns(baseline, None)
        ELSE IF now - domain.lastTimestamp[1] <= 0 THEN returns(baseline, None)
        ELSE IF energy.value[1] - domain.lastEnergy[1] < 0 THEN returns(baseline, None)
        ELSE returns(baseline,
                     Some(Watts((energy.value[1] - domain.lastEnergy[1]) * 1000,
                                MICRO_UNITS_PER_WATT * (now - domain.lastTimestamp[1]))))

\* readWatts (powercap.ts, part_009 lines 52-104): the domain as the call
\* leaves it, whether it threw, and the watts it returned; `power` and
\* `energy` are the outcomes of its reads of power_uw and energy_uj.
\* deltaEnergy / 1e6 / (elapsedMs / 1000) is the quotient
\* deltaEnergy * 1000 / (1e6 * elapsedMs)
readWatts(domain, power, energy, now) ==
    LET returns(d, watts) == [domain |-> d, threw |-> FALSE, watts |-> watts]
        throws == [domain |-> domain, threw |-> TRUE, watts |-> None]
        baseline == [domain EXCEPT !.lastEnergy = energy.value, !.lastTimestamp = Some(now)]
        elapsedMs == now - domain.lastTimestamp[1]
        difference == energy.value[1] - domain.lastEnergy[1]
        deltaEnergy == IF difference < 0 /\ domain.maxEnergy # None
                       THEN difference + domain.maxEnergy[1]
                       ELSE difference
    IN  IF domain.powerPath /\ power.denied THEN throws
        ELSE IF domain.powerPath /\ power.value # None
        THEN returns([domain EXCEPT !.cachedPower =
                         Some(Watts(power.value[1], MICRO_UNITS_PER_WATT))],
                     Some(Watts(power.value[1], MICRO_UNITS_PER_WATT)))
        ELSE IF domain.powerPath /\ domain.cachedPower # None
        THEN returns(domain, domain.cachedPower)
        ELSE IF ~domain.energyPath THEN returns(domain, None)
        ELSE IF energy.denied THEN throws
        ELSE IF energy.value = None
        THEN returns([domain EXCEPT !.lastEnergy = None, !.lastTimestamp = None], None)
        ELSE IF domain.lastEnergy = None \/ domain.lastTimestamp = None
        THEN returns(baseline, None)
        ELSE IF elapsedMs <= 0 THEN returns(baseline, None)
        ELSE IF deltaEnergy < 0 THEN returns(baseline, None)
        ELSE returns(baseline,
                     Some(Watts(deltaEnergy * 1000, MICRO_UNITS_PER_WATT * elapsedMs)))

\* what a file of the domain can give
FileReads == {FileRead(TRUE, None), FileRead(FALSE, None)}
                \cup {FileRead(FALSE, Some(n)) : n \in 0..MaxEnergy}

\* the domains listRaplDomains builds (part_009, lines 131-150) at time 0:
\* a domain has its energy file, its power file, or both
ListedDomains ==
    {RaplDomainState(powerValue # None, energy # None, maxEnergy,
                     energy, IF energy # None THEN Some(0) ELSE None,
                     IF powerValue # None
                     THEN Some(Watts(powerValue[1], MICRO_UNITS_PER_WATT)) ELSE None) :
        energy \in {None} \cup {Some(n) : n \in 0..MaxEnergy},
        powerValue \in {None, Some(1)},
        maxEnergy \in {None, Some(2), Some(MaxEnergy + 1)}}
    \ {RaplDomainState(FALSE, FALSE, maxEnergy, None, None, None) :
           maxEnergy \in {None, Some(2), Some(MaxEnergy + 1)}}

InitPowercap ==
    /\ state = InitialState
    /\ availableProviders = <<>>
    /\ retryToken = 0
    /\ refreshIntervalMs = DEFAULT_REFRESH_MS
    /\ mounted = TRUE
    /\ sessions = <<NewSession>>
    /\ samplesMap = EmptyMap
    /\ aggregated = <<>>
    /\ subscription = NotStarted
    /\ probe = NotProbed
    /\ historyRef = NoHistory
    /\ pushed = NothingPushed
    /\ csv = None
    /\ invocation = NoCall
    /\ rapl \in {[NoDomain EXCEPT !.domain = d] : d \in ListedDomains}
    /\ instance = NoInstance

\* collect() takes the time and calls readWatts(cockpit, domain, now)
\* (part_009, lines 188-192); the clock has moved by `elapsed` since the
\* last call
ReadWatts(power, energy, elapsed) ==
    /\ rapl.now + elapsed \in 0..MaxClock
    /\ LET r == readWatts(rapl.domain, power, energy, rapl.now + elapsed)
       IN  rapl' = [domain |-> r.domain,
                    now |-> rapl.now + elapsed,
                    called |-> TRUE,
                    power |-> power,
                    energy |-> energy,
                    before |-> rapl.domain,
                    threw |-> r.threw,
                    watts |-> r.watts]
    /\ UNCHANGED <<hookVars, aggVars, provVars, historyRef, pushed, csv, invocation, instance>>

NextPowercap ==
    \E power \in FileReads, energy \in FileReads, elapsed \in (-1)..2 :
        ReadWatts(power, energy, elapsed)

SpecPowercap == InitPowercap /\ [][NextPowercap]_vars

(***************************************************************************)
(* The polling timers of a provider object (lm-sensors, nvme, powercap):   *)
(* start() may be called again before the teardown of an earlier call.     *)
(* instance.handle is this.intervalHandle; instance.timers are the         *)
(* intervals of the window that are scheduled, each with the subscription  *)
(* whose start() created it.                                               *)
(***************************************************************************)
\* calls of start() on one provider object
MaxStarts == 3

PollingProviders == {"lm-sensors", "nvme", "powercap"}

\* a closure of start(): `booted` is false while bootstrap() of powercap
\* has not got to its setInterval; `values` is currentValues of hwmon
Closure(booted) == [disposed |-> FALSE, booted |-> booted, values |-> <<>>]

\* window.setInterval / window.setTimeout: a new timer of subscription k
SetTimer(inst, k, due) ==
    [inst EXCEPT !.created = @ + 1,
                 !.timers = @ \cup {[id |-> inst.created + 1, owner |-> k, due |-> due]},
                 !.handle = Some(inst.created + 1)]

\* window.clearInterval / window.clearTimeout of the handle the object holds
ClearTimer(inst) ==
    IF inst.handle = None THEN inst
    ELSE [inst EXCEPT !.timers = {t \in @ : t.id # inst.handle[1]}]

\* the function start() returns (part_004 lines 310-316, part_005 lines
\* 183-189, part_009 lines 241-246): powercap keeps the handle it cleared
teardown(inst, k) ==
    LET cleared == [ClearTimer(inst) EXCEPT !.subs[k].disposed = TRUE]
    IN  IF inst.provider = "powercap" THEN cleared
        ELSE IF inst.handle # None THEN [cleared EXCEPT !.handle = None]
        ELSE cleared

InitTimers ==
    /\ state = InitialState
    /\ availableProviders = <<>>
    /\ retryToken = 0
    /\ refreshIntervalMs = DEFAULT_REFRESH_MS
    /\ mounted = TRUE
    /\ sessions = <<NewSession>>
    /\ samplesMap = EmptyMap
    /\ aggregated = <<>>
    /\ subscription = NotStarted
    /\ probe = NotProbed
    /\ historyRef = NoHistory
    /\ pushed = NothingPushed
    /\ csv = None
    /\ invocation = NoCall
    /\ rapl = NoDomain
    /\ instance \in {[NoInstance EXCEPT !.provider = p] : p \in PollingProviders}

\* start(onChange, context) in a browser: lm-sensors and nvme set their
\* interval before they return (part_004 lines 303-308, part_005 lines
\* 176-181), powercap leaves it to bootstrap()
InstanceStart ==
    /\ Len(instance.subs) < MaxStarts
    /\ LET k == Len(instance.subs) + 1
           started == [instance EXCEPT !.subs = Append(@, Closure(instance.provider # "powercap"))]
       IN  instance' = IF instance.provider = "powercap" THEN started
                       ELSE SetTimer(started, k, None)
    /\ UNCHANGED <<hookVars, aggVars, provVars, historyRef, pushed, csv, invocation, rapl>>

\* bootstrap() of powercap gets past its awaits (part_009 lines 210-229):
\* it returns if the closure is disposed or no domain was found, and sets
\* the interval otherwise
InstanceBootstrap(k, found) ==
    /\ instance.provider = "powercap"
    /\ k \in DOMAIN instance.subs
    /\ ~instance.subs[k].booted
    /\ LET booted == [instance EXCEPT !.subs[k].booted = TRUE]
       IN  instance' = IF instance.subs[k].disposed \/ ~found THEN booted
                       ELSE SetTimer(booted, k, None)
    /\ UNCHANGED <<hookVars, aggVars, provVars, historyRef, pushed, csv, invocation, rapl>>

\* the engine calls the teardown function of subscription k
InstanceTeardown(k) ==
    /\ k \in DOMAIN instance.subs
    /\ ~instance.subs[k].disposed
    /\ instance' = teardown(instance, k)
    /\ UNCHANGED <<hookVars, aggVars, provVars, historyRef, pushed, csv, invocation, rapl>>

NextTimers ==
    \/ InstanceStart
    \/ \E k \in 1..MaxStarts, found \in BOOLEAN : InstanceBootstrap(k, found)
    \/ \E k \in 1..MaxStarts : InstanceTeardown(k)

SpecTimers == InitTimers /\ [][NextTimers]_vars

(***************************************************************************)
(* hwmon: the file watchers of one subscription and the debounce of its    *)
(* emissions (hwmon.ts, lines 290-416), in a browser.  instance.handle is  *)
(* this.throttleTimeout; instance.now is the time in milliseconds;         *)
(* instance.events are the calls of emit() since the last emission: when,  *)
(* for which sensor, and whether its file was deleted; instance.emitted is *)
(* the last call of onChange: when, and the value of each sensor in it.    *)
(* A value is kept in thousandths, as the scale 0.001 makes one.           *)
(***************************************************************************)
\* the latest time, and the longest burst of watch events
MaxMillis == 1000
MaxBurst == 3

\* the delay of the timeout (line 318)
THROTTLE_MS == 500

\* the sensors of the chips, in the order of the descriptors
HwmonSensors == <<"temp1", "fan1">>

\* scaleForKind (lines 151-160), in thousandths: 0.001 for temp and volt,
\* 1 for fan
scaleForKind(sensor) == IF sensor = "temp1" THEN 1 ELSE 1000

\* parseNumber (lines 36-48) of the content of a file, null when the file
\* is gone
hwmonParseNumber(content) ==
    IF content[1] = "null" \/ content[2] = <<>> THEN None
    ELSE IF trim(content[2]) = <<>> THEN None
    ELSE parseFloat(trim(content[2]))

\* what a watcher is called with
FileContents ==
    {JsNull, JsString(<<>>), JsString(<<"x">>), JsString(<<" ", "4", "2", " ">>)}

\* the samples of the timeout's callback (lines 308-317): a value for
\* every descriptor whose sensor has one in currentValues
CurrentSamples(values) ==
    [sensor \in {values[i][1] : i \in {j \in DOMAIN values : values[j][2] # None}} |->
        (CHOOSE entry \in Range(values) : entry[1] = sensor)[2][1]]

\* currentValues.set(sensor, value) / currentValues.delete(sensor)
SetValue(values, sensor, value) ==
    [i \in DOMAIN values |-> IF values[i][1] = sensor THEN <<sensor, value>> ELSE values[i]]

\* a slip: every call of emit() adds a timeout of its own
emitWithoutClearing(inst, k, sensor, deleted) ==
    IF inst.subs[k].disposed THEN inst
    ELSE [SetTimer(inst, k, Some(inst.now + THROTTLE_MS)) EXCEPT
             !.events = Append(@, [at |-> inst.now, sensor |-> sensor, deleted |-> deleted])]

\* emit() in a browser (lines 297-320): the pending timeout is cleared and
\* a new one set
emit(inst, k, sensor, deleted) ==
    IF inst.subs[k].disposed THEN inst
    ELSE [SetTimer(ClearTimer(inst), k, Some(inst.now + THROTTLE_MS)) EXCEPT
             !.events = Append(@, [at |-> inst.now, sensor |-> sensor, deleted |-> deleted])]

InitHwmon ==
    /\ state = InitialState
    /\ availableProviders = <<>>
    /\ retryToken = 0
    /\ refreshIntervalMs = DEFAULT_REFRESH_MS
    /\ mounted = TRUE
    /\ sessions = <<NewSession>>
    /\ samplesMap = EmptyMap
    /\ aggregated = <<>>
    /\ subscription = NotStarted
    /\ probe = NotProbed
    /\ historyRef = NoHistory
    /\ pushed = NothingPushed
    /\ csv = None
    /\ invocation = NoCall
    /\ rapl = NoDomain
    /\ instance = [NoInstance EXCEPT !.provider = "hwmon"]

\* start(onChange, context) (lines 290-295, 398): attachWatchers() is under
\* way when it returns
HwmonStart ==
    /\ instance.provider = "hwmon"
    /\ instance.subs = <<>>
    /\ instance' = [instance EXCEPT !.subs = <<Closure(FALSE)>>]
    /\ UNCHANGED <<hookVars, aggVars, provVars, historyRef, pushed, csv, invocation, rapl>>

\* attachWatchers() gets to its end (lines 333-386): with no chip it calls
\* onChange([]); otherwise every sensor has its descriptor, its initial
\* value if its file gave a number, and its watcher, and emit() is called
HwmonAttached(chips, initial) ==
    /\ instance.provider = "hwmon"
    /\ instance.subs # <<>>
    /\ ~instance.subs[1].booted
    /\ instance' =
         IF ~chips
         THEN [instance EXCEPT !.subs[1].booted = TRUE,
                               !.emitted = <<[at |-> instance.now, samples |-> <<>>]>>]
         ELSE emit([instance EXCEPT
                       !.subs[1].booted = TRUE,
                       !.subs[1].values =
                           [i \in DOMAIN HwmonSensors |-> <<HwmonSensors[i], initial[i]>>]],
                   1, "attach", FALSE)
    /\ UNCHANGED <<hookVars, aggVars, provVars, historyRef, pushed, csv, invocation, rapl>>

\* a watcher is called with the content of its file (lines 358-378)
HwmonWatch(sensor, content) ==
    /\ instance.provider = "hwmon"
    /\ instance.subs # <<>>
    /\ \E i \in DOMAIN instance.subs[1].values : instance.subs[1].values[i][1] = sensor
    /\ Len(instance.events) < MaxBurst
    /\ instance' =
         IF instance.subs[1].disposed THEN instance
         ELSE IF content = JsNull
         THEN emit([instance EXCEPT !.subs[1].values = SetValue(@, sensor, None)],
                   1, sensor, TRUE)
         ELSE IF hwmonParseNumber(content) = None THEN instance
         ELSE emit([instance EXCEPT !.subs[1].values =
                       SetValue(@, sensor,
                                Some(hwmonParseNumber(content)[1] * scaleForKind(sensor)))],
                   1, sensor, FALSE)
    /\ UNCHANGED <<hookVars, aggVars, provVars, historyRef, pushed, csv, invocation, rapl>>

\* the timeout set by emit() is due: its callback calls onChange (lines
\* 307-318)
ThrottleFires ==
    /\ instance.provider = "hwmon"
    /\ \E timer \in instance.timers :
          /\ timer.due = Some(instance.now)
          /\ instance' =
               [instance EXCEPT
                  !.timers = @ \ {timer},
                  !.events = <<>>,
                  !.emitted = <<[at |-> instance.now,
                                 samples |-> CurrentSamples(instance.subs[1].values)]>>]
    /\ UNCHANGED <<hookVars, aggVars, provVars, historyRef, pushed, csv, invocation, rapl>>

\* time passes, up to the moment the next timeout is due
TimePasses(ms) ==
    /\ instance.provider = "hwmon"
    /\ instance.now + ms <= MaxMillis
    /\ \A timer \in instance.timers : instance.now + ms <= timer.due[1]
    /\ instance' = [instance EXCEPT !.now = @ + ms]
    /\ UNCHANGED <<hookVars, aggVars, provVars, historyRef, pushed, csv, invocation, rapl>>

\* the function start() returned is called (lines 400-415): the pending
\* timeout is cleared and the watchers are stopped
HwmonTeardown ==
    /\ instance.provider = "hwmon"
    /\ instance.subs # <<>>
    /\ ~instance.subs[1].disposed
    /\ instance' = [teardown(instance, 1) EXCEPT !.events = <<>>]
    /\ UNCHANGED <<hookVars, aggVars, provVars, historyRef, pushed, csv, invocation, rapl>>

NextHwmon ==
    \/ HwmonStart
    \/ \E chips \in BOOLEAN :
          \E initial \in [DOMAIN HwmonSensors -> {None, Some(40)}] :
             HwmonAttached(chips, initial)
    \/ \E i \in DOMAIN HwmonSensors, content \in FileContents :
          HwmonWatch(HwmonSensors[i], content)
    \/ ThrottleFires
    \/ \E ms \in {250, 500} : TimePasses(ms)
    \/ HwmonTeardown

SpecHwmon == InitHwmon /\ [][NextHwmon]_vars

(***************************************************************************)
(* Claims.                                                                 *)
(***************************************************************************)
\* position of a provider name in AGGREGATION_ORDER
OrderIndex(name) == CHOOSE i \in DOMAIN AGGREGATION_ORDER : AGGREGATION_ORDER[i] = name

\* the dedupe keys a snapshot holds
KeysOf(samples) == {dedupeKey(samples[i]) : i \in DOMAIN samples}

\* the providers of the mapping m that hold a sample with the key k
Holders(m, k) == {m[i].key : i \in {j \in DOMAIN m : k \in KeysOf(m[j].value)}}

\* the first sample with the key k in a snapshot
FirstWithKey(samples, k) ==
    LET at == {i \in DOMAIN samples : dedupeKey(samples[i]) = k}
    IN  samples[CHOOSE i \in at : \A j \in at : i <= j]

\* every order of the entries of the mapping m
Reorderings(m) ==
    {[i \in DOMAIN m |-> m[f[i]]] :
        f \in {g \in [DOMAIN m -> DOMAIN m] : \A a, b \in DOMAIN m : g[a] = g[b] => a = b}}

\* C1: the aggregate holds at most one sample per (kind, id); for every key
\* some provider holds, it is the sample of the provider that comes first in
\* hwmon, lm-sensors, powercap, nvme among the holders; it holds nothing
\* else; and the mapping with its entries inserted in any other order gives
\* the same aggregate.
C1_AggregatePrecedence ==
    /\ \A i, j \in DOMAIN aggregated :
          dedupeKey(aggregated[i]) = dedupeKey(aggregated[j]) => i = j
    /\ \A i \in DOMAIN aggregated :
          Holders(samplesMap, dedupeKey(aggregated[i])) # {}
    /\ \A e \in DOMAIN samplesMap : \A k \in KeysOf(samplesMap[e].value) :
          \E i \in DOMAIN aggregated :
             LET first == CHOOSE p \in Holders(samplesMap, k) :
                             \A q \in Holders(samplesMap, k) : OrderIndex(p) <= OrderIndex(q)
             IN  /\ dedupeKey(aggregated[i]) = k
                 /\ aggregated[i].provider = first
                 /\ aggregated[i] =
                       WithProvider(FirstWithKey(MapGetOrEmpty(samplesMap, first), k), first)
    /\ \A m \in Reorderings(samplesMap) : aggregateSamples(m) = aggregated

\* C1 witness: lm-sensors stored its snapshot before hwmon, both hold the same
\* key with different values, and the aggregate shows hwmon's
C1_Witness ==
    /\ Len(samplesMap) >= 2
    /\ samplesMap[1].key = "lm-sensors"
    /\ samplesMap[2].key = "hwmon"
    /\ Len(samplesMap[1].value) = 1
    /\ Len(samplesMap[2].value) = 1
    /\ dedupeKey(samplesMap[1].value[1]) = dedupeKey(samplesMap[2].value[1])
    /\ samplesMap[1].value[1].value # samplesMap[2].value[1].value
    /\ Len(aggregated) = 1
    /\ aggregated[1].provider = "hwmon"
    /\ aggregated[1].value = samplesMap[2].value[1].value


\* the data shows a reading of the sample
HasReading(data, sample) ==
    \E g \in DOMAIN data.groups : \E r \in DOMAIN data.groups[g].readings :
        /\ data.groups[g].readings[r].label = sample.label
        /\ data.groups[g].readings[r].input = sample.value

\* an auxiliary provider of the closure has reported permission-denied
\* (here: from its availability probe, lines 238-239)
AuxiliaryDenied(sess) == \E a \in AuxiliaryNames : sess.probes[a] = "denied"

\* C2: once status is needs-privileges, it is needs-privileges after every
\* step that is not retry(): every sample delivery, every provider error,
\* every completion of a probe.
C2_NeedsPrivilegesSticky ==
    [][(state.status = "needs-privileges" /\ retryToken' = retryToken)
          => state'.status = "needs-privileges"]_vars

\* C2 witness: status is needs-privileges and the live closure holds samples
\* that were delivered after it became so (the data does not show them)
C2_Witness ==
    /\ ~sessions[1].cancelled
    /\ state.status = "needs-privileges"
    /\ aggregateSamples(sessions[1].samplesByProvider) # <<>>
    /\ state.data # samplesToSensorData(aggregateSamples(sessions[1].samplesByProvider))

\* C3: after an auxiliary provider has reported permission-denied, a
\* snapshot by which the primary provider replaces its earlier one is shown
\* in the data (the reading takes the delivered value) and status stays
\* needs-privileges.
C3_DataFollowsDelivery ==
    [][\A p \in PrimaryNames : \A x \in Snapshots \ {<<>>} :
          (/\ ~sessions[1].cancelled
           /\ AuxiliaryDenied(sessions[1])
           /\ MapGetOrEmpty(sessions[1].samplesByProvider, p) # <<>>
           /\ ProviderChange(1, p, x))
          => (/\ state'.status = "needs-privileges"
              /\ HasReading(state'.data, x[1]))]_vars

\* C4: when the primary provider has delivered a non-empty snapshot and an
\* auxiliary provider has reported permission-denied, in whichever order,
\* status is needs-privileges and the data is non-empty and shows the
\* primary provider's samples.
C4_PrivilegesWithData ==
    LET sess == sessions[1]
        delivered == MapGetOrEmpty(sess.samplesByProvider, sess.activeProvider)
    IN  (/\ ~sess.cancelled
         /\ sess.activeProvider # Undefined
         /\ delivered # <<>>
         /\ AuxiliaryDenied(sess))
        => (/\ state.status = "needs-privileges"
            /\ state.data.groups # <<>>
            /\ HasReading(state.data, delivered[1]))

\* C5: in every session at most one primary provider is started; a started
\* one was probed true after every earlier candidate was probed false or
\* failed without permission-denied; a candidate is probed only after every
\* earlier one completed that way; and a candidate probed true in a session
\* is started unless the session was cancelled.
C5_OnePrimaryInOrder ==
    \A s \in DOMAIN sessions :
        LET sess == sessions[s]
        IN  /\ Cardinality(sess.started \cap PrimaryNames) <= 1
            /\ \A i \in DOMAIN PRIMARY_PROVIDERS :
                  /\ PRIMARY_PROVIDERS[i] \in sess.started
                        => sess.probes[PRIMARY_PROVIDERS[i]] = "true"
                  /\ sess.probes[PRIMARY_PROVIDERS[i]] # "none"
                        => \A j \in 1..(i - 1) : sess.probes[PRIMARY_PROVIDERS[j]] = "no"
                  /\ (sess.probes[PRIMARY_PROVIDERS[i]] = "true" /\ ~sess.cancelled)
                        => PRIMARY_PROVIDERS[i] \in sess.started

\* C5 witness: lm-sensors was started, after the probe of hwmon failed
C5_Witness ==
    /\ "lm-sensors" \in sessions[1].started
    /\ sessions[1].probes["hwmon"] = "no"
    /\ sessions[1].activeProvider = "lm-sensors"

\* no primary provider behind PRIMARY_PROVIDERS[i] is probed or started in
\* the session s after the step
NoLaterPrimary(s, i) ==
    \A j \in (i + 1)..Len(PRIMARY_PROVIDERS) :
        /\ sessions'[s].probes[PRIMARY_PROVIDERS[j]] = "none"
        /\ PRIMARY_PROVIDERS[j] \notin sessions'[s].started

\* the probe of PRIMARY_PROVIDERS[i] in the session s is rejected with
\* permission-denied in this step
PrimaryDeniedNow(s, i) ==
    /\ sessions[s].probes[PRIMARY_PROVIDERS[i]] = "pending"
    /\ sessions'[s].probes[PRIMARY_PROVIDERS[i]] = "denied"

\* C6 as claimed: when a primary provider's probe is rejected with
\* permission-denied, status becomes needs-privileges, and no later primary
\* provider is probed or started in that session.
C6_DeniedProbeSurfaces ==
    [][\A s \in DOMAIN sessions : \A i \in DOMAIN PRIMARY_PROVIDERS :
          /\ PrimaryDeniedNow(s, i) => state'.status = "needs-privileges"
          /\ sessions[s].probes[PRIMARY_PROVIDERS[i]] = "denied" => NoLaterPrimary(s, i)]_vars

\* C6 amended: when a primary provider's probe is rejected with
\* permission-denied in a session that is not cancelled, status becomes
\* needs-privileges; cancelled or not, no later primary provider is probed
\* or started in that session.
C6_DeniedProbeSurfacesWhileLive ==
    [][\A s \in DOMAIN sessions : \A i \in DOMAIN PRIMARY_PROVIDERS :
          /\ (PrimaryDeniedNow(s, i) /\ ~sessions[s].cancelled)
                => state'.status = "needs-privileges"
          /\ (PrimaryDeniedNow(s, i) \/ sessions[s].probes[PRIMARY_PROVIDERS[i]] = "denied")
                => NoLaterPrimary(s, i)]_vars

\* C6 witness: the probe of hwmon was rejected in the current session;
\* status is needs-privileges and lm-sensors was not probed
C6_Witness ==
    LET sess == sessions[Len(sessions)]
    IN  /\ ~sess.cancelled
        /\ sess.probes["hwmon"] = "denied"
        /\ sess.probes["lm-sensors"] = "none"
        /\ sess.started = {}
        /\ state.status = "needs-privileges"

\* C7: an auxiliary provider whose probe resolves true in a session that is
\* not cancelled is started in that step, whatever the primary tier did.
C7_AuxiliaryStarted ==
    [][\A s \in DOMAIN sessions : \A a \in AuxiliaryNames :
          (/\ ~sessions[s].cancelled
           /\ sessions[s].probes[a] = "pending"
           /\ sessions'[s].probes[a] = "true")
          => a \in sessions'[s].started]_vars

\* C7 witness: nvme was started in a session whose primary probe was
\* rejected with permission-denied
C7_Witness ==
    /\ ~sessions[1].cancelled
    /\ sessions[1].probes["hwmon"] = "denied"
    /\ sessions[1].probes["nvme"] = "true"
    /\ "nvme" \in sessions[1].started
    /\ sessions[1].started \cap PrimaryNames = {}

\* C8: retry() leaves status loading, the data empty, lastError and the
\* available providers cleared, every earlier closure cancelled and a new
\* closure with an empty cache and a cleared permission flag; and every
\* later change of the state is computed from the current closure: new data
\* is the grouping of its cache, and needs-privileges is entered only with
\* its permission flag set.
C8_RetryCleanSlate ==
    [][LET last == Len(sessions')
           cur == sessions'[last]
       IN  /\ retryToken' # retryToken =>
                 /\ state'.status = "loading"
                 /\ state'.isLoading
                 /\ state'.data = EMPTY_SENSOR_DATA
                 /\ state'.lastError = None
                 /\ availableProviders' = <<>>
                 /\ cur.samplesByProvider = EmptyMap
                 /\ ~cur.permissionDenied
                 /\ ~cur.cancelled
                 /\ \A s \in 1..(last - 1) : sessions'[s].cancelled
           /\ (retryToken' = retryToken /\ state' # state) =>
                 /\ ~cur.cancelled
                 /\ state'.data # state.data =>
                       state'.data = samplesToSensorData(aggregateSamples(cur.samplesByProvider))
                 /\ (state'.status = "needs-privileges" /\ state.status # "needs-privileges")
                       => cur.permissionDenied]_vars

\* C8 witness: the first session had a primary provider and a
\* permission-denied report; after retry() the second session shows its own
\* samples with status ready
C8_Witness ==
    /\ retryToken = 1
    /\ Len(sessions) = 2
    /\ "hwmon" \in sessions[1].started
    /\ sessions[1].probes["powercap"] = "denied"
    /\ ~sessions[2].cancelled
    /\ ~sessions[2].permissionDenied
    /\ state.status = "ready"
    /\ state.data.groups # <<>>

\* C9: a callback (onChange or onError) of a provider of a cancelled session
\* changes nothing of the state.
C9_LateCallbacksSuppressed ==
    [][state' # state =>
          \A s \in DOMAIN sessions : sessions[s].cancelled =>
             \A p \in Subscribed(sessions[s]) :
                /\ \A x \in Snapshots : ~ProviderChange(s, p, x)
                /\ \A c \in ProviderErrorCode : ~ProviderErrors(s, p, c)]_vars

\* C9 witness: after retry(), the cancelled session still has a subscription
\* that can call back, and the state is the one retry() left
C9_Witness ==
    /\ Len(sessions) = 2
    /\ sessions[1].cancelled
    /\ Subscribed(sessions[1]) # {}
    /\ retryToken = 1
    /\ state.status = "loading"

\* C10: a probe that completes in a cancelled session starts no provider,
\* creates no subscription and adds no name to the available providers; and
\* every subscription of a cancelled session has had its teardown called.
C10_CancelledProbeInert ==
    [][\A s \in DOMAIN sessions :
          /\ (sessions[s].cancelled /\ sessions'[s].probes # sessions[s].probes) =>
                /\ sessions'[s].started = sessions[s].started
                /\ Subscribed(sessions'[s]) = Subscribed(sessions[s])
                /\ availableProviders' = availableProviders
          /\ sessions'[s].cancelled => Subscribed(sessions'[s]) \subseteq sessions'[s].torn]_vars

\* C11: once the function start() returned has been called, onChange is not
\* invoked again for the subscription, whatever was awaited at that moment,
\* for every provider; the function can be called again.
C11_NoChangeAfterTeardown ==
    subscription.disposed => subscription.event # "onChange"

C13_AuxiliaryErrorHarmless ==
    [][/\ \A a \in AuxiliaryNames :
             (/\ ~sessions[1].cancelled
              /\ state.status # "error"
              /\ ProviderErrors(1, a, "unexpected"))
             => state'.status # "error"
       /\ \A p \in PrimaryNames : \A x \in Snapshots \ {<<>>} :
             (/\ ~sessions[1].cancelled
              /\ state.status = "error"
              /\ state.activeProvider \in AuxiliaryNames
              /\ state.lastError = Some("unexpected")
              /\ ProviderChange(1, p, x))
             => HasReading(state'.data, x[1])]_vars

\* a ProviderError with the code `code` reaches the engine in this step: a
\* running provider hands it to onError, a probe is rejected with it, or
\* start() reports or throws it
ErrorArrives(code) ==
    \/ \E s \in DOMAIN sessions : \E p \in Providers : ProviderErrors(s, p, code)
    \/ \E s \in DOMAIN sessions : \E b \in StartOutcomes :
          \/ \E i \in DOMAIN PRIMARY_PROVIDERS :
                \/ PrimaryProbeSettles(s, i, code, b)
                \/ b.code = code /\ PrimaryProbeSettles(s, i, "true", b)
          \/ \E i \in DOMAIN AUXILIARY_PROVIDERS :
                \/ AuxiliaryProbeSettles(s, i, code, b)
                \/ b.code = code /\ AuxiliaryProbeSettles(s, i, "true", b)

\* C14: a step in which a ProviderError with code unavailable reaches the
\* engine, from onError of a running provider or from an availability probe,
\* does not take status to error.
C14_UnavailableNeverError ==
    [][(state.status # "error" /\ state'.status = "error") => ~ErrorArrives("unavailable")]_vars

\* C15: when the command of an availability probe fails with a
\* permission-denied indication, isAvailable() rejects with
\* permission-denied; and when a command or file read of a subscription
\* that has not been torn down fails with one, the provider hands a
\* permission-denied ProviderError to onError (which, in a live session,
\* makes status needs-privileges).
C15_PermissionDeniedSurfaces ==
    [][\A io \in SpawnErrors : isPermissionDenied(io) =>
          /\ \A p \in Providers :
                Probe(p, io) => probe'.outcome = "permission-denied"
          /\ \A i \in DOMAIN subscription.tasks :
                (~subscription.disposed /\ AwaitCompletes(i, io))
                => subscription'.event = "permission-denied"]_vars

\* C16: whenever status is no-sources (in a session that is not cancelled),
\* the probe of every primary provider has completed without finding the
\* provider available, no primary provider was started, and no provider
\* holds a sample.
C16_NoSourcesMeansNone ==
    LET sess == sessions[Len(sessions)]
    IN  (state.status = "no-sources" /\ ~sess.cancelled) =>
           /\ \A p \in PrimaryNames : sess.probes[p] \in {"no", "denied"}
           /\ sess.started \cap PrimaryNames = {}
           /\ \A p \in Providers : MapGetOrEmpty(sess.samplesByProvider, p) = <<>>

\* C17: whenever status is ready, the data has a group; and the current
\* session, unless it is cancelled, has had no permission-denied report: its
\* permission flag is clear and none of its probes was rejected with
\* permission-denied.
C17_ReadyMeansDataNoDenial ==
    LET sess == sessions[Len(sessions)]
    IN  state.status = "ready" =>
           /\ state.data.groups # <<>>
           /\ ~sess.cancelled =>
                 /\ ~sess.permissionDenied
                 /\ \A p \in Providers : sess.probes[p] # "denied"

\* C17 witness: status is ready with the samples of a started primary
\* provider, in a session all of whose auxiliary probes have completed
C17_Witness ==
    LET sess == sessions[Len(sessions)]
    IN  /\ ~sess.cancelled
        /\ state.status = "ready"
        /\ state.data.groups # <<>>
        /\ sess.primaryUnsubscribe # Undefined
        /\ \A a \in AuxiliaryNames : sess.probes[a] \in {"true", "no"}

\* C18: in every state of a session that is not cancelled, the data has no
\* group exactly when the aggregate of the session's sample caches is empty.
C18_GroupsEmptyIffNoSamples ==
    LET sess == sessions[Len(sessions)]
    IN  ~sess.cancelled =>
           (state.data.groups = <<>> <=> aggregateSamples(sess.samplesByProvider) = <<>>)

\* the command of a probe failed with a permission-denied indication: the
\* problem access-denied or a message with the text `permission denied`
PermissionIndication(io) ==
    io.failed /\ (io.problem = "access-denied" \/ io.message = "permission denied")

\* C19: for every provider, isAvailable() rejects exactly when the command
\* of its probe fails with a permission-denied indication, and then with
\* permission-denied; when the command fails in any other way (a missing
\* tool included) it resolves false; and it resolves true only when the
\* command succeeded and found at least one sensor, device or domain.
C19_ProbeOutcome ==
    probe.provider # Undefined =>
       /\ probe.outcome \in {"true", "false", "permission-denied"}
       /\ probe.outcome = "permission-denied" <=> PermissionIndication(probe.io)
       /\ (probe.io.failed /\ ~PermissionIndication(probe.io)) => probe.outcome = "false"
       /\ probe.outcome = "true" <=> (~probe.io.failed /\ probe.io.items)

\* C19 witness: the probe of hwmon was rejected with permission-denied, its
\* command having failed with a `permission denied` message and a
\* not-found problem
C19_Witness ==
    /\ probe.provider = "hwmon"
    /\ probe.io.failed
    /\ probe.io.message = "permission denied"
    /\ probe.io.problem = "not-found"
    /\ probe.outcome = "permission-denied"

\* the command failed with a missing-executable indication: the problem
\* not-found, the exit status 127, or a message with the text `command not
\* found` or `no such file or directory`
MissingIndication(io) ==
    io.failed /\ (\/ io.problem = "not-found"
                  \/ io.exit_status = 127
                  \/ io.message \in {"command not found", "no such file or directory"})

\* C20: every provider that runs a command classifies its failure the same
\* way: permission-denied with a permission indication; otherwise
\* unavailable with a missing-executable indication; otherwise unexpected.
C20_UniformClassification ==
    (probe.provider # Undefined /\ probe.io.failed) =>
        probe.code = IF PermissionIndication(probe.io) THEN "permission-denied"
                     ELSE IF MissingIndication(probe.io) THEN "unavailable"
                     ELSE "unexpected"

\* C21: whatever context.refreshIntervalMs is, a provider that polls on a
\* timer (lm-sensors, nvme, powercap) polls with an interval of at least
\* 500 ms.
C21_PollingFloor ==
    subscription.interval # None => subscription.interval[1] >= 500

\* C22: after n pushes with limit L >= 1 into an empty buffer, the buffer
\* holds min(n, L) samples: the last min(n, L) values pushed, in the order
\* they were pushed.
C22_RollingBuffer ==
    \A k \in DOMAIN historyRef.series :
        LET buffer == historyRef.series[k].samples
            values == pushed[historyRef.series[k].key]
            n == Len(values)
            kept == IF n <= historyRef.limit THEN n ELSE historyRef.limit
        IN  historyRef.limit >= 1 =>
                /\ Len(buffer) = kept
                /\ \A i \in 1..kept : buffer[i].v = values[n - kept + i]

\* a buffer that evicted two samples and holds two different values
C22_Witness ==
    \E k \in DOMAIN historyRef.series :
        /\ historyRef.limit = 2
        /\ Len(pushed[historyRef.series[k].key]) = 4
        /\ Len(historyRef.series[k].samples) = 2
        /\ historyRef.series[k].samples[1].v # historyRef.series[k].samples[2].v

\* the first series with an index-th sample
FirstWith(series, index) ==
    CHOOSE k \in DOMAIN series :
        /\ index <= Len(series[k].samples)
        /\ \A j \in 1..(k - 1) : index > Len(series[j].samples)

C23_WitnessEmpty == csv # None /\ historyRef.series = <<>>

\* the payload of a call carries a numeric timestamp
CarriesTimestamp(raw) ==
    /\ isRecord(raw)
    /\ \/ Get(raw, "timestamp")[1] = "number"
       \/ Get(raw, "timestamp")[1] \in {"undefined", "null"} /\ Get(raw, "updated")[1] = "number"
       \/ /\ Get(raw, "timestamp")[1] \in {"undefined", "null"}
          /\ Get(raw, "updated")[1] \in {"undefined", "null"}
          /\ Get(raw, "time")[1] = "number"

CarriedTimestamp(raw) ==
    IF Get(raw, "timestamp")[1] = "number" THEN Get(raw, "timestamp")[2]
    ELSE IF Get(raw, "updated")[1] = "number" THEN Get(raw, "updated")[2]
    ELSE Get(raw, "time")[2]

\* C24: parseSensorsJson keeps the numeric timestamp of a payload in its
\* result, the value 0 included, whether or not any group parses.
C24_TimestampKept ==
    (invocation.fn = "parseSensorsJson" /\ invocation.result # None /\ CarriesTimestamp(invocation.input)) =>
        /\ "timestamp" \in DOMAIN invocation.result[1]
        /\ invocation.result[1].timestamp = CarriedTimestamp(invocation.input)

\* a payload with timestamp 0 and no group parsed
C24_Witness ==
    /\ invocation.fn = "parseSensorsJson"
    /\ invocation.result = Some([groups |-> <<>>, timestamp |-> 0])
    /\ Get(invocation.input, "timestamp") = JsNumber(0)

\* a payload with timestamp 0 and a group parsed
C24_WitnessGroups ==
    /\ invocation.fn = "parseSensorsJson"
    /\ invocation.result # None
    /\ CarriesTimestamp(invocation.input)
    /\ CarriedTimestamp(invocation.input) = 0
    /\ invocation.result[1].groups # <<>>

\* C29: when the read of a device fails with permission-denied in a poll of
\* nvme or smartctl that has already collected samples from earlier
\* devices, the error goes to onError and those samples still reach
\* onChange: the poll hands them over, or goes on holding them.
C29_EarlierSamplesDelivered ==
    [][\A i \in 1..MaxInFlight, io \in IoResults :
          (/\ AwaitCompletes(i, io)
           /\ subscription.provider \in DeviceProviders
           /\ subscription.tasks[i] = ReadDevice(subscription.provider)
           /\ subscription.polls[i].samples > 0
           /\ Awaited(subscription.tasks[i], io) = "permission-denied")
          => /\ subscription'.event = "permission-denied"
             /\ \/ /\ subscription'.delivered # None
                   /\ subscription'.delivered[1] >= subscription.polls[i].samples
                \/ /\ Len(subscription'.tasks) = Len(subscription.tasks)
                   /\ subscription'.polls[i].samples >= subscription.polls[i].samples]_vars

\* C25: for a reading in degrees Celsius, getThresholdState is danger when
\* the input is at or above max or at or above critical; otherwise warning
\* when the input is at most 5 below max; otherwise normal.
C25_ThresholdState ==
    (/\ invocation.fn = "getThresholdState"
     /\ invocation.result # None
     /\ invocation.input.unit = CELSIUS_UNIT
     /\ invocation.input.input # None) =>
        LET reading == invocation.input
            input == reading.input[1]
            atMax == reading.max # None /\ input >= reading.max[1]
            atCritical == reading.critical # None /\ input >= reading.critical[1]
            nearMax == reading.max # None /\ reading.max[1] - input <= 5
        IN  invocation.result[1] = IF atMax \/ atCritical THEN "danger"
                                   ELSE IF nearMax THEN "warning"
                                   ELSE "normal"

\* max = 80, critical = 90: 76 gives warning
C25_Witness ==
    /\ invocation.fn = "getThresholdState"
    /\ invocation.input = [input |-> Some(76), max |-> Some(80), critical |-> Some(90),
                           unit |-> CELSIUS_UNIT]
    /\ invocation.result = Some("warning")

\* max = 80: 82 and 80 give danger
C25_WitnessDanger ==
    /\ invocation.fn = "getThresholdState"
    /\ invocation.input.unit = CELSIUS_UNIT
    /\ invocation.input.max = Some(80)
    /\ invocation.input.input \in {Some(80), Some(82)}
    /\ invocation.result = Some("danger")

\* C26: convertTemperature turns a finite raw value above 200 into raw - 273
\* and returns a finite raw value of 200 or less as it is.
C26_KelvinAbove200 ==
    (/\ invocation.fn = "convertTemperature"
     /\ invocation.result # None
     /\ invocation.input[1] = "number") =>
        invocation.result[1] = Some(IF invocation.input[2] > 200
                                    THEN invocation.input[2] - 273
                                    ELSE invocation.input[2])

\* 201 gives -72
C26_Witness ==
    /\ invocation.fn = "convertTemperature"
    /\ invocation.input = JsNumber(201)
    /\ invocation.result = Some(Some(-72))

\* 200 gives 200
C26_Witness200 ==
    /\ invocation.fn = "convertTemperature"
    /\ invocation.input = JsNumber(200)
    /\ invocation.result = Some(Some(200))

\* the finite value the table has for a SMART attribute, if any
AttributeValue(data, id) ==
    LET attributes == Get(data, "ata_smart_attributes")
        table == IF attributes = JsUndefined THEN JsUndefined ELSE Get(attributes, "table")
        values == IF table[1] = "array"
                  THEN {Get(table[2][k], "value") : k \in
                          {j \in DOMAIN table[2] : Get(table[2][j], "id") = JsNumber(id)}}
                  ELSE {}
    IN  {v[2] : v \in {w \in values : w[1] = "number"}}

\* the same data with the table in another order
Reordered(data) ==
    LET attributes == Get(data, "ata_smart_attributes")
        table == IF attributes = JsUndefined THEN JsUndefined ELSE Get(attributes, "table")
    IN  IF table[1] # "array" THEN {data}
        ELSE {other \in SmartctlData :
                /\ Get(other, "temperature") = Get(data, "temperature")
                /\ Get(other, "ata_smart_attributes") # JsUndefined
                /\ Get(Get(other, "ata_smart_attributes"), "table")[1] = "array"
                /\ Len(Get(Get(other, "ata_smart_attributes"), "table")[2]) = Len(table[2])
                /\ Range(Get(Get(other, "ata_smart_attributes"), "table")[2]) = Range(table[2])}

\* C27: extractTemperature returns temperature.current when it is a finite
\* number; otherwise the finite value of attribute 194; otherwise that of
\* attribute 190; otherwise nothing; and the order of the table does not
\* change the result.
C27_TemperaturePrecedence ==
    (invocation.fn = "extractTemperature" /\ invocation.result # None) =>
        LET data == invocation.input
            temperature == Get(data, "temperature")
            current == IF temperature = JsUndefined THEN JsUndefined
                       ELSE Get(temperature, "current")
            expected == IF current[1] = "number" THEN {current[2]}
                        ELSE IF AttributeValue(data, 194) # {} THEN AttributeValue(data, 194)
                        ELSE AttributeValue(data, 190)
        IN  /\ invocation.result[1] = None <=> expected = {}
            /\ invocation.result[1] # None => invocation.result[1][1] \in expected
            /\ \A other \in Reordered(data) : extractTemperature(other) = invocation.result[1]

\* no temperature.current, attribute 190 before attribute 194 in the table
C27_Witness ==
    /\ invocation.fn = "extractTemperature"
    /\ invocation.result = Some(Some(94))
    /\ Get(invocation.input, "temperature") = JsUndefined
    /\ LET table == Get(Get(invocation.input, "ata_smart_attributes"), "table")[2]
       IN  /\ Len(table) >= 2
           /\ table[1] = JsObject([id |-> JsNumber(190), value |-> JsNumber(90)])
           /\ table[2] = JsObject([id |-> JsNumber(194), value |-> JsNumber(94)])

\* the kind a feature group is named for
GroupKind(name) ==
    CASE name = <<"f", "a", "n", "1">> -> "fan"
      [] name = <<"i", "n", "0">> -> "volt"
      [] name = <<"t", "e", "m", "p", "1">> -> "temp"

\* C28: a feature group that exposes only a bare input key yields a sample
\* of the kind its name stands for (fan1: fan, in0: volt, temp1: temp) with
\* the input as its value.
C28_BareInputGroup ==
    (invocation.fn = "normalizeLmSensors" /\ invocation.result # None) =>
        \A c \in DOMAIN invocation.input[2] :
            LET chipValue == invocation.input[2][c][2]
            IN  chipValue[1] = "entries" =>
                    \A g \in DOMAIN chipValue[2] :
                        LET name == chipValue[2][g][1]
                            group == chipValue[2][g][2]
                        IN  (/\ name \in GroupNames
                             /\ group[1] = "entries"
                             /\ Lookup(group, <<"i", "n", "p", "u", "t">>)[1] = "number") =>
                                \E k \in DOMAIN invocation.result[1] :
                                    /\ invocation.result[1][k].kind = GroupKind(name)
                                    /\ invocation.result[1][k].value = Lookup(group, <<"i", "n", "p", "u", "t">>)[2]

\* the last call of readWatts computed from the energy counter, and the
\* counter read lower than the reading before
CounterWrapped ==
    /\ rapl.called
    /\ ~rapl.before.powerPath
    /\ rapl.before.energyPath
    /\ rapl.energy.value # None
    /\ rapl.before.lastEnergy # None
    /\ rapl.before.lastTimestamp # None
    /\ rapl.now > rapl.before.lastTimestamp[1]
    /\ rapl.energy.value[1] < rapl.before.lastEnergy[1]

\* C30: when the energy counter reads lower than the time before, readWatts
\* computes the power from current - previous + max range if the domain
\* declares a max range; if it declares none, or the corrected difference
\* is still negative, it returns no value, raises no error and takes the
\* reading as the new baseline; a power it returns from the counter is
\* never negative.
C30_CounterWraparound ==
    /\ CounterWrapped =>
          LET corrected == rapl.energy.value[1] - rapl.before.lastEnergy[1]
                              + rapl.before.maxEnergy[1]
              elapsedMs == rapl.now - rapl.before.lastTimestamp[1]
          IN  /\ ~rapl.threw
              /\ rapl.domain.lastEnergy = rapl.energy.value
              /\ rapl.domain.lastTimestamp = Some(rapl.now)
              /\ IF rapl.before.maxEnergy # None /\ corrected >= 0
                 THEN /\ rapl.watts # None
                      /\ rapl.watts[1].num = corrected * 1000
                      /\ rapl.watts[1].den = 1000000 * elapsedMs
                 ELSE rapl.watts = None
    /\ (rapl.called /\ ~rapl.before.powerPath /\ rapl.watts # None) =>
          rapl.watts[1].num >= 0 /\ rapl.watts[1].den > 0

\* a wrapped counter with a declared range gave a power above zero
C30_Witness ==
    /\ CounterWrapped
    /\ rapl.before.maxEnergy # None
    /\ rapl.watts # None
    /\ rapl.watts[1].num > 0

\* a wrapped counter whose corrected difference is still negative
C30_WitnessStillNegative ==
    /\ CounterWrapped
    /\ rapl.before.maxEnergy # None
    /\ rapl.watts = None

\* C31: in every reachable state, the reported activeProvider is undefined
\* or the name of a primary provider, never the name of an auxiliary one.
C31_ActiveProviderPrimary ==
    state.activeProvider \in {Undefined} \cup PrimaryNames

\* samples reach the engine in this step: a running provider calls
\* onChange, or start() does before it returns
SamplesDelivered ==
    \/ \E s \in DOMAIN sessions : \E p \in Providers : \E x \in Snapshots :
          ProviderChange(s, p, x)
    \/ \E s \in DOMAIN sessions : \E b \in StartOutcomes :
          /\ b.kind \in {"return", "change"}
          /\ \/ \E i \in DOMAIN PRIMARY_PROVIDERS : PrimaryProbeSettles(s, i, "true", b)
             \/ \E i \in DOMAIN AUXILIARY_PROVIDERS : AuxiliaryProbeSettles(s, i, "true", b)

\* C33: once status is error, a step that delivers samples changes neither
\* status nor data; status leaves error only for needs-privileges, in a
\* step in which a permission-denied error reaches the engine, or by
\* retry().
C33_ErrorSticky ==
    [][state.status = "error" =>
          /\ SamplesDelivered => (state'.status = "error" /\ state'.data = state.data)
          /\ state'.status # "error" =>
                \/ state'.status = "needs-privileges" /\ ErrorArrives("permission-denied")
                \/ retry]_vars

\* C33 witness: status is error while the cache of the current session
\* holds samples a provider delivered
C33_Witness ==
    LET sess == sessions[Len(sessions)]
    IN  /\ state.status = "error"
        /\ ~sess.cancelled
        /\ aggregateSamples(sess.samplesByProvider) # <<>>
        /\ state.data.groups = <<>>

\* C34: the probes of the auxiliary providers do not wait for one another:
\* from the moment a session begins, the probe of every auxiliary provider
\* is under way or has completed.
C34_AuxiliaryProbesConcurrent ==
    \A s \in DOMAIN sessions : \A a \in AuxiliaryNames :
        sessions[s].probes[a] # "none"

\* C36: in every reachable state of the engine, isLoading is true exactly
\* when status is loading.
C36_LoadingFlag ==
    state.isLoading <=> state.status = "loading"

\* C36 witness: out of loading again after retry() went back to it
C36_Witness ==
    /\ retryToken > 0
    /\ ~state.isLoading
    /\ state.status = "ready"

\* C37: whenever status is no-data, a primary provider has been committed
\* and started in the current session and the data has no group; whenever
\* status is no-sources, the data has no group.
C37_NoDataMeansPrimaryStarted ==
    LET sess == sessions[Len(sessions)]
    IN  /\ state.status = "no-data" =>
              /\ sess.started \cap PrimaryNames # {}
              /\ state.data.groups = <<>>
        /\ state.status = "no-sources" => state.data.groups = <<>>

C38_WitnessPrivileges ==
    LET sess == sessions[Len(sessions)]
    IN  /\ retryToken = 0
        /\ Len(sessions) > 1
        /\ ~sess.cancelled
        /\ ~sess.permissionDenied
        /\ state.status = "needs-privileges"
        /\ aggregateSamples(sess.samplesByProvider) # <<>>

\* the group a sample belongs to: its chip and its effective category
GroupOf(sample) ==
    <<IF sample.chipId # None THEN sample.chipId[1] ELSE sample.id,
      IF sample.category # Undefined THEN sample.category
      ELSE SENSOR_KIND_TO_CATEGORY(sample.kind)>>

\* the reading a sample is shown as
ReadingOf(sample) ==
    [label |-> sample.label, input |-> sample.value,
     unit |-> IF sample.unit # Undefined THEN sample.unit
              ELSE SENSOR_KIND_TO_UNIT(sample.kind)]

\* where a sample's reading stands in the groups: <<group, reading>>
PlacesOf(sample, groups) ==
    {place \in (DOMAIN groups) \X (1..MaxSamples + 1) :
        /\ place[2] \in DOMAIN groups[place[1]].readings
        /\ groups[place[1]].readings[place[2]] = ReadingOf(sample)}

RECURSIVE ReadingCount(_)
ReadingCount(groups) ==
    IF groups = <<>> THEN 0
    ELSE Len(Head(groups).readings) + ReadingCount(Tail(groups))

\* C32: samplesToSensorData shows every aggregated sample as exactly one
\* reading in exactly one group, the group of its chip and its category
\* (its own category if it has one, otherwise the one of its kind); the
\* groups have distinct ids, none is empty, and there are as many readings
\* as samples.
C32_SamplesGrouped ==
    (invocation.fn = "samplesToSensorData" /\ invocation.result # None) =>
        LET samples == invocation.input
            groups == invocation.result[1].groups
        IN  /\ \A i \in DOMAIN samples :
                  /\ Cardinality(PlacesOf(samples[i], groups)) = 1
                  /\ \A place \in PlacesOf(samples[i], groups) :
                        /\ groups[place[1]].id = GroupOf(samples[i])
                        /\ groups[place[1]].category = GroupOf(samples[i])[2]
            /\ \A g, h \in DOMAIN groups : g # h => groups[g].id # groups[h].id
            /\ \A g \in DOMAIN groups : groups[g].readings # <<>>
            /\ ReadingCount(groups) = Len(samples)

\* C32 witness: three samples in two groups, one sample in a group by a
\* category of its own, next to a sample of that kind
C32_Witness ==
    /\ invocation.fn = "samplesToSensorData"
    /\ invocation.result # None
    /\ Len(invocation.input) = 3
    /\ Len(invocation.result[1].groups) = 2
    /\ \E i, j \in DOMAIN invocation.input :
          /\ invocation.input[i].kind = "temp"
          /\ invocation.input[i].category = "fan"
          /\ invocation.input[j].kind = "fan"
          /\ invocation.input[j].category = Undefined
          /\ GroupOf(invocation.input[i]) = GroupOf(invocation.input[j])

\* the keys of the rows of a refresh
RowKeys(rows) == {rows[i].key : i \in DOMAIN rows}

\* the buffers the history map holds for a key
BuffersOf(history, key) == {k \in DOMAIN history : history[k].key = key}

\* C40: after each refresh the table has processed, its history map holds a
\* buffer only for keys of rows of that refresh, and one at most for a key:
\* the buffer of a key missing from the refresh is gone, and a key that
\* comes back with a number, its buffer deleted before, has a buffer of the
\* one sample of this refresh.
C40_HistoryFollowsRows ==
    [][\A rows \in TableRows : HistoryEffect(rows) =>
          \A key \in SeriesKeys :
             /\ Cardinality(BuffersOf(historyRef'.series, key)) <= 1
             /\ key \notin RowKeys(rows) => BuffersOf(historyRef'.series, key) = {}
             /\ \A i \in DOMAIN rows :
                   (/\ BuffersOf(historyRef.series, key) = {}
                    /\ rows[i].key = key
                    /\ isFinite(rows[i].input))
                   => \E k \in DOMAIN historyRef'.series :
                         /\ historyRef'.series[k].key = key
                         /\ historyRef'.series[k].samples
                               = <<[t |-> historyRef.now, v |-> rows[i].input[2]]>>]_vars

\* C40 witness: a key pushed twice, missing from a refresh, and back: two
\* values pushed before, a buffer of the one sample of the last refresh
C40_Witness ==
    \E k \in DOMAIN historyRef.series :
        /\ Len(pushed[historyRef.series[k].key]) = 3
        /\ Len(historyRef.series[k].samples) = 1
        /\ historyRef.series[k].samples[1].t = historyRef.now - 1
        /\ historyRef.series[k].key \in RowKeys(invocation.input)

\* C39: once the teardown of every subscription of a provider object has
\* been called, no polling timer of the object is scheduled, also when
\* start() was called again before an earlier subscription was torn down;
\* and the teardown of one subscription cancels no timer of another.
C39_TimersFollowSubscriptions ==
    [][/\ (/\ instance'.subs # <<>>
           /\ \A k \in DOMAIN instance'.subs :
                 instance'.subs[k].disposed /\ instance'.subs[k].booted)
          => instance'.timers = {}
       /\ \A k \in DOMAIN instance.subs : InstanceTeardown(k) =>
             \A t \in instance.timers \ instance'.timers : t.owner = k]_vars

\* C35: hwmon calls onChange once for a burst of watch events: while
\* events follow one another by less than 500 ms no onChange is made and
\* one timeout is pending, due 500 ms after the last event; the onChange it
\* makes carries the latest value of every sensor that has one at that
\* moment, and no value for a sensor whose input file was deleted.
C35_WatchEventsDebounced ==
    [][/\ Cardinality(instance'.timers) <= 1
       /\ \A timer \in instance'.timers :
             /\ instance'.events # <<>>
             /\ timer.due = Some(instance'.events[Len(instance'.events)].at + 500)
       /\ \A i \in DOMAIN HwmonSensors : \A content \in FileContents :
             HwmonWatch(HwmonSensors[i], content) =>
                /\ instance'.emitted = instance.emitted
                /\ (content = JsNull /\ ~instance.subs[1].disposed) =>
                      \E j \in DOMAIN instance'.subs[1].values :
                         instance'.subs[1].values[j] = <<HwmonSensors[i], None>>
       /\ ThrottleFires =>
             /\ instance.events # <<>>
             /\ instance'.emitted[1].at = instance.events[Len(instance.events)].at + 500
             /\ \A j \in DOMAIN instance.subs[1].values :
                   LET sensor == instance.subs[1].values[j][1]
                       value == instance.subs[1].values[j][2]
                   IN  IF value = None
                       THEN sensor \notin DOMAIN instance'.emitted[1].samples
                       ELSE /\ sensor \in DOMAIN instance'.emitted[1].samples
                            /\ instance'.emitted[1].samples[sensor] = value[1]]_vars

\* C35 witness: an onChange made 500 ms after the last event of a burst
\* that began 500 ms before that event, a sensor deleted in it
C35_Witness ==
    /\ instance.provider = "hwmon"
    /\ instance.emitted # <<>>
    /\ instance.emitted[1].at = 1000
    /\ instance.now = 1000
    /\ instance.events = <<>>
    /\ instance.timers = {}
    /\ instance.subs # <<>>
    /\ ~instance.subs[1].disposed
    /\ DOMAIN instance.emitted[1].samples = {"fan1"}
    /\ instance.emitted[1].samples["fan1"] = 42000

\* C35 witness: a burst of three events pending, the first 500 ms old, a
\* sensor deleted in it
C35_WitnessBurst ==
    /\ Len(instance.events) = 3
    /\ instance.events[1].at + 500 = instance.now
    /\ instance.events[3].at = instance.now
    /\ \E e \in Range(instance.events) : e.deleted
    /\ Cardinality(instance.timers) = 1

====
